---- MODULE Spec2Model ----
(***************************************************************************)
(* Model of the WAVE parameter-sweep automation (src/waveui.py).           *)
(*                                                                         *)
(* Pressures are kept as integers in units of 0.01, so that round(x, 1)    *)
(* is a real conversion (to the nearest multiple of 10) and not the        *)
(* identity.  Arithmetic is exact: binary floating-point error of the      *)
(* Python floats is not modelled.                                          *)
(*                                                                         *)
(* A Python value that may be None is a sequence: <<>> is None and <<v>>   *)
(* is the value v.  A Python dict is a function on its keys; a tuple or a  *)
(* list is a sequence.  The timestamp column of the ledger is left out: no *)
(* code reads it.                                                          *)
(***************************************************************************)
EXTENDS Integers, Sequences, FiniteSets, TLC

\* ---------------------------------------------------------------- bounds
\* How many times the program is invoked on the one export directory.
MaxRuns == 2
\* Length of the long stage-1 / stage-2 sweeps used for the restart cadence.
LongPv == 52
\* How many adapter faults the environment injects in a long sweep.
MaxFaults == 1
\* The largest pv / els bound of the configs given to the enumerator alone.
MaxRange == 2
\* The longest list of targets given to the feasibility filter alone.
MaxTargets == 2

\* ------------------------------------------------------- program constants
restart_threshold == 50

\* ---------------------------------------------------------------- helpers
None == <<>>
Some(v) == <<v>>

Len0(n) == IF n > 0 THEN n ELSE 0

\* Python int(a / b): the quotient truncated toward zero (b # 0).
TruncDiv(a, b) ==
    LET aa == IF a < 0 THEN -a ELSE a
        bb == IF b < 0 THEN -b ELSE b
        q  == aa \div bb
    IN  IF (a < 0) = (b < 0) THEN q ELSE -q

\* Python round(x, 1) on a value in units of 0.01: nearest multiple of 10,
\* a tie going to the even tenth.
Round1(x) ==
    LET r  == x % 10
        lo == x - r
    IN  IF r < 5 THEN lo
        ELSE IF r > 5 THEN lo + 10
        ELSE IF (lo \div 10) % 2 = 0 THEN lo ELSE lo + 10

\* Python range(lo, hi + 1) as a sequence.
PyRange(lo, hi) == [i \in 1..Len0(hi - lo + 1) |-> lo + i - 1]

\* itertools.product of two sequences, in Python's order (last varies fastest).
Product2(s, t) ==
    [k \in 1..(Len(s) * Len(t)) |->
        <<s[((k - 1) \div Len(t)) + 1], t[((k - 1) % Len(t)) + 1]>>]

RECURSIVE Flatten(_)
Flatten(ss) == IF ss = <<>> THEN <<>> ELSE Head(ss) \o Flatten(Tail(ss))

SeqToSet(s) == {s[i] : i \in DOMAIN s}

\* ------------------------------------------------------------------- JSON
\* json.dumps of a dict: the members as text, here a sequence of
\* <<key, value>> pairs.  Member order does not matter to json.loads; the
\* model writes members in one fixed order.
KeyOrder == <<"stage", "pv", "els", "element_type", "feed_pressure",
              "target_pressure", "boost_pressure">>

RECURSIVE DumpKeys(_, _)
DumpKeys(d, ks) ==
    IF ks = <<>> THEN <<>>
    ELSE (IF Head(ks) \in DOMAIN d THEN << <<Head(ks), d[Head(ks)]>> >> ELSE <<>>)
         \o DumpKeys(d, Tail(ks))

json_dumps(d) == DumpKeys(d, KeyOrder)

json_loads(s) ==
    [k \in {s[i][1] : i \in DOMAIN s} |->
        s[CHOOSE i \in DOMAIN s : s[i][1] = k][2]]

json_dumps_list(ds) == [i \in DOMAIN ds |-> json_dumps(ds[i])]
json_loads_list(ss) == [i \in DOMAIN ss |-> json_loads(ss[i])]

\* dict.get(k): None when the key is absent.
Get(d, k) == IF k \in DOMAIN d THEN Some(d[k]) ELSE None

\* ----------------------------------------------------------------- ledger
\* f"wave_report_{n:04d}.xls": the zero-padded decimal digits of n (the
\* constant prefix and suffix are the same in every name and are left out).
RECURSIVE Digits(_)
Digits(n) == IF n < 10 THEN <<n>> ELSE Digits(n \div 10) \o <<n % 10>>

Pad4(ds) == [i \in 1..(4 - Len(ds)) |-> 0] \o ds

generate_report_filename(counter) == Pad4(Digits(counter))

\* The columns of the DataFrame the constructor creates and to_csv writes.
MetadataColumns ==
    {"filename", "timestamp", "current_stage_params", "previous_stages_params"}

\* The ancestor dicts add_metadata_entry and get_pressure_from_excel build
\* from the tuples (pv, els, element_type, pressure[, boost]).
PrevStageDictFeedOnly(i, params) ==
    [stage |-> i, pv |-> params[1], els |-> params[2],
     element_type |-> params[3], feed_pressure |-> params[4]]
PrevStageDict(i, params) ==
    LET base == [stage |-> i, pv |-> params[1], els |-> params[2],
                 element_type |-> params[3]]
    IN  IF i = 1 THEN base @@ [feed_pressure |-> params[4]]
        ELSE IF Len(params) > 4
             THEN base @@ [target_pressure |-> params[4],
                           boost_pressure |-> params[5]]
             ELSE base @@ [target_pressure |-> params[4]]

PrevStagesData(prev_stage_params) ==
    [i \in DOMAIN prev_stage_params |-> PrevStageDict(i, prev_stage_params[i])]

\* The row add_metadata_entry appends.
NewRow(counter, stage_params, prev_stage_params) ==
    [filename |-> generate_report_filename(counter),
     current_stage_params |-> json_dumps(stage_params),
     previous_stages_params |->
        json_dumps_list(PrevStagesData(prev_stage_params))]

\* The constructor's resume: the counter after loading an existing file.
\* The sequence is continued only from a 'report_id' column.
ResumeCounter(file) ==
    IF file.rows # <<>> /\ "report_id" \in file.columns
    THEN LET ids == {file.rows[i].report_id : i \in DOMAIN file.rows}
         IN  (CHOOSE m \in ids : \A x \in ids : x <= m) + 1
    ELSE 1

NoFile == [exists |-> FALSE, columns |-> {}, rows |-> <<>>]

\* DataFrame.to_csv(metadata_file): the whole table replaces the file.  The
\* cells are already text (a name, two JSON strings), so the file holds the
\* rows as they are.
to_csv(df) == [exists |-> TRUE, columns |-> MetadataColumns, rows |-> df]

\* ------------------------------------------------------ result extraction
\* One ledger row against the lookup criteria (the body of the scan loop of
\* get_pressure_from_excel).
PrevParamMatchesAny(i, prev_param, expected_param) == TRUE
PrevParamMatchesBoostOnBothSides(i, prev_param, expected_param) ==
    /\ Get(prev_param, "pv") = Some(expected_param.pv)
    /\ Get(prev_param, "els") = Some(expected_param.els)
    /\ Get(prev_param, "element_type") = Some(expected_param.element_type)
    /\ IF i = 1
       THEN Get(prev_param, "feed_pressure") = Some(expected_param.feed_pressure)
       ELSE /\ Get(prev_param, "target_pressure")
                 = Some(expected_param.target_pressure)
            /\ ("boost_pressure" \in DOMAIN expected_param
                    /\ "boost_pressure" \in DOMAIN prev_param)
                 => prev_param.boost_pressure = expected_param.boost_pressure
PrevParamMatches(i, prev_param, expected_param) ==
    /\ Get(prev_param, "pv") = Some(expected_param.pv)
    /\ Get(prev_param, "els") = Some(expected_param.els)
    /\ Get(prev_param, "element_type") = Some(expected_param.element_type)
    /\ IF i = 1
       THEN Get(prev_param, "feed_pressure") = Some(expected_param.feed_pressure)
       ELSE /\ Get(prev_param, "target_pressure")
                 = Some(expected_param.target_pressure)
            /\ "boost_pressure" \in DOMAIN expected_param
                 => /\ "boost_pressure" \in DOMAIN prev_param
                    /\ prev_param.boost_pressure = expected_param.boost_pressure

RowMatchesAnyPressure(row, stage, pv, els, element_type, pressure, prev_stage_params) ==
    LET cur_params  == json_loads(row.current_stage_params)
        prev_params == json_loads_list(row.previous_stages_params)
        prev_stages_data == PrevStagesData(prev_stage_params)
    IN  /\ Get(cur_params, "stage") = Some(stage)
        /\ Get(cur_params, "pv") = Some(pv)
        /\ Get(cur_params, "els") = Some(els)
        /\ Get(cur_params, "element_type") = Some(element_type)
        /\ prev_stage_params # <<>>
             => /\ Len(prev_params) = Len(prev_stages_data)
                /\ \A i \in DOMAIN prev_params :
                      PrevParamMatches(i, prev_params[i], prev_stages_data[i])

RowMatches(row, stage, pv, els, element_type, pressure, prev_stage_params) ==
    LET cur_params  == json_loads(row.current_stage_params)
        prev_params == json_loads_list(row.previous_stages_params)
        prev_stages_data == PrevStagesData(prev_stage_params)
    IN  /\ Get(cur_params, "stage") = Some(stage)
        /\ Get(cur_params, "pv") = Some(pv)
        /\ Get(cur_params, "els") = Some(els)
        /\ Get(cur_params, "element_type") = Some(element_type)
        /\ IF stage = 1
           THEN Get(cur_params, "feed_pressure") = Some(pressure)
           ELSE Get(cur_params, "target_pressure") = Some(pressure)
        /\ prev_stage_params # <<>>
             => /\ Len(prev_params) = Len(prev_stages_data)
                /\ \A i \in DOMAIN prev_params :
                      PrevParamMatches(i, prev_params[i], prev_stages_data[i])

\* The scan: the index of the first matching row of the table, 0 when no
\* row matches (matched_row is None).
FindRowLast(table, stage, pv, els, element_type, pressure, prev_stage_params) ==
    LET hits == {i \in DOMAIN table :
                    RowMatches(table[i], stage, pv, els, element_type,
                               pressure, prev_stage_params)}
    IN  IF hits = {} THEN 0
        ELSE CHOOSE i \in hits : \A j \in hits : j <= i
FindRow(table, stage, pv, els, element_type, pressure, prev_stage_params) ==
    LET hits == {i \in DOMAIN table :
                    RowMatches(table[i], stage, pv, els, element_type,
                               pressure, prev_stage_params)}
    IN  IF hits = {} THEN 0
        ELSE CHOOSE i \in hits : \A j \in hits : i <= j

\* The filename a lookup resolves to, None when there is no match.
FindFilename(table, stage, pv, els, element_type, pressure, prev_stage_params) ==
    LET i == FindRow(table, stage, pv, els, element_type, pressure,
                     prev_stage_params)
    IN  IF i = 0 THEN None ELSE Some(table[i].filename)

\* An artifact (prev_stage_excel_file): readable or not; its Metadata sheet,
\* rows like the ledger's; its element_flow sheet: flow_columns is the set
\* of n with a column row_<n>_Feed_Press, flow_rows the rows, each with the
\* cell that names a report and the value under every such column; numeric
\* says whether float() accepts the cells under these columns.
NotFoundZero == <<None, Some(0)>>
NotFound == <<None, None>>

\* The column names compared as text: the character after the digits of n
\* is '_', which sorts above every digit.
CharAt(ds, k) == IF k <= Len(ds) THEN ds[k] ELSE 10
TextLess(s, t) ==
    \E k \in 1..(Len(s) + 1) :
        /\ \A q \in 1..(k - 1) : CharAt(s, q) = CharAt(t, q)
        /\ CharAt(s, k) < CharAt(t, k)
LastFeedPressColumnAsText(columns) ==
    CHOOSE n \in columns :
        \A m \in columns : m = n \/ TextLess(Digits(m), Digits(n))

\* feed_press_columns.sort(key=int(n)); feed_press_columns[-1]: the column
\* with the largest n.
LastFeedPressColumn(columns) ==
    CHOOSE n \in columns : \A m \in columns : m <= n

get_pressure_from_excel(excel, stage, pv, els, element_type, pressure, prev_stage_params) ==
    IF ~excel.readable THEN NotFound
    ELSE
    LET i == FindRow(excel.Metadata, stage, pv, els, element_type, pressure,
                     prev_stage_params)
    IN  IF i = 0 THEN NotFound
        ELSE
        LET matched_row == excel.Metadata[i]
            filename == matched_row.filename
            matching_rows == {r \in DOMAIN excel.flow_rows :
                                 excel.flow_rows[r].cell = filename}
        IN  IF matching_rows = {} THEN NotFound
            ELSE IF excel.flow_columns = {} THEN NotFound
            ELSE
            LET row_idx == CHOOSE r \in matching_rows :
                              \A q \in matching_rows : r <= q
                column  == LastFeedPressColumn(excel.flow_columns)
                feed_pressure == excel.flow_rows[row_idx].press[column]
            IN  IF ~excel.numeric THEN NotFound
                ELSE <<Get(json_loads(matched_row.current_stage_params),
                           "boost_pressure"),
                       Some(Round1(feed_pressure))>>

\* ------------------------------------------------------------- enumerator
get_valid_target_pressures_geq(target_values, feed_pressure) ==
    SelectSeq(target_values, LAMBDA target : target - feed_pressure >= 0)
get_valid_target_pressures_all(target_values, feed_pressure) == target_values
get_valid_target_pressures(target_values, feed_pressure) ==
    SelectSeq(target_values, LAMBDA target : target - feed_pressure > 0)

\* [round(start + i * step, 1) for i in range(int((end - start) / step) + 1)]
PressureValues(start, end, step) ==
    [i \in 1..Len0(TruncDiv(end - start, step) + 1) |->
        Round1(start + (i - 1) * step)]

\* config.get(key, 1): the step defaults to 1.
StepOf(config, key) == IF key \in DOMAIN config THEN config[key] ELSE 100

FeedPressureValues(config) ==
    PressureValues(config.feed_pressure_range[1], config.feed_pressure_range[2],
                   StepOf(config, "feed_pressure_step"))

TargetPressureValues(config) ==
    PressureValues(config.target_pressure_range[1],
                   config.target_pressure_range[2],
                   StepOf(config, "target_pressure_step"))

PvRange(config) == PyRange(config.pv_range[1], config.pv_range[2])
ElsRange(config) == PyRange(config.els_range[1], config.els_range[2])

\* itertools.product(pv_range, els_range, pressure_values) of the stage-1
\* path: tuples <<pv, els, pressure>>.
Stage1Combinations(config) ==
    LET pe == Product2(PvRange(config), ElsRange(config))
        pp == Product2(pe, FeedPressureValues(config))
    IN  [k \in DOMAIN pp |-> <<pp[k][1][1], pp[k][1][2], pp[k][2]>>]

\* stage_params of one ancestor stage: tuples (pv, els, element_type, pressure).
StageParams(config, stage) ==
    LET pe == Product2(PvRange(config), ElsRange(config))
        pv == IF stage = 1 THEN FeedPressureValues(config)
              ELSE TargetPressureValues(config)
        pp == Product2(pe, pv)
    IN  [k \in DOMAIN pp |->
            <<pp[k][1][1], pp[k][1][2], config.element_type, pp[k][2]>>]

\* itertools.product(*prev_stage_combinations): the ancestor chains, one
\* tuple per ancestor stage (one or two ancestor stages).
PrevStageChains(stage_configs, current_stage) ==
    IF current_stage = 2
    THEN LET s1 == StageParams(stage_configs[1], 1)
         IN  [k \in DOMAIN s1 |-> <<s1[k]>>]
    ELSE Product2(StageParams(stage_configs[1], 1),
                  StageParams(stage_configs[2], 2))

\* ------------------------------------------------------------------ inputs
\* The configured stage lists (config['stages']) the program is run with.
JobSmall ==
    << [element_type |-> "NF90", pv_range |-> <<1, 2>>, els_range |-> <<1, 1>>,
        feed_pressure_range |-> <<1000, 1000>>, feed_pressure_step |-> 100],
       [element_type |-> "BW30", pv_range |-> <<1, 1>>, els_range |-> <<1, 1>>,
        target_pressure_range |-> <<1000, 3000>>,
        target_pressure_step |-> 1000],
       [element_type |-> "SW30", pv_range |-> <<1, 1>>, els_range |-> <<1, 1>>,
        target_pressure_range |-> <<4000, 4000>>] >>

\* A feed-pressure range whose minimum exceeds its maximum by less than the
\* (default) step.
JobInverted ==
    << [element_type |-> "NF90", pv_range |-> <<1, 1>>, els_range |-> <<1, 1>>,
        feed_pressure_range |-> <<1000, 950>>] >>

\* An empty pressure-vessel range.
JobEmpty ==
    << [element_type |-> "NF90", pv_range |-> <<2, 1>>, els_range |-> <<1, 1>>,
        feed_pressure_range |-> <<1000, 2000>>, feed_pressure_step |-> 1000] >>

\* The most rows of a Metadata sheet a direct lookup is made on.
MaxRows == 2

\* The most entries the second process on the directory appends.
MaxPeerAppends == 2

\* Sweeps long enough to reach the restart threshold: a long stage 1, and a
\* long stage 2 behind a single stage-1 combination.
JobLong1 ==
    << [element_type |-> "NF90", pv_range |-> <<1, LongPv>>,
        els_range |-> <<1, 1>>,
        feed_pressure_range |-> <<1000, 1000>>, feed_pressure_step |-> 100] >>

JobLong2 ==
    << [element_type |-> "NF90", pv_range |-> <<2, 2>>, els_range |-> <<1, 1>>,
        feed_pressure_range |-> <<1000, 1000>>, feed_pressure_step |-> 100],
       [element_type |-> "BW30", pv_range |-> <<1, LongPv>>,
        els_range |-> <<1, 1>>,
        target_pressure_range |-> <<2000, 2000>>] >>

LongJobs == {JobLong1, JobLong2}

SmallJobs == {JobSmall, JobInverted, JobEmpty}

\* The previous-stage artifacts.  ArtifactFixed holds the two stage-1 runs
\* of JobSmall: the first reached 30.0, the second 14.56 (read as 14.6).
ArtifactFixed ==
    [readable |-> TRUE, numeric |-> TRUE,
     Metadata |->
        << NewRow(1, [stage |-> 1, pv |-> 1, els |-> 1,
                      element_type |-> "NF90", feed_pressure |-> 1000], <<>>),
           NewRow(2, [stage |-> 1, pv |-> 2, els |-> 1,
                      element_type |-> "NF90", feed_pressure |-> 1000], <<>>) >>,
     flow_columns |-> {1, 2},
     flow_rows |->
        << [cell |-> generate_report_filename(1),
            press |-> [n \in {1, 2} |-> IF n = 1 THEN 2800 ELSE 3000]],
           [cell |-> generate_report_filename(2),
            press |-> [n \in {1, 2} |-> IF n = 1 THEN 900 ELSE 1456]] >>]

\* An artifact assembled from the ledger file of the export directory: the
\* Metadata sheet mirrors the ledger, and every report reached 9.96.
ArtifactMirror(file) ==
    [readable |-> TRUE, numeric |-> TRUE,
     Metadata |-> file.rows,
     flow_columns |-> {1, 2},
     flow_rows |->
        [i \in DOMAIN file.rows |->
            [cell |-> file.rows[i].filename,
             press |-> [n \in {1, 2} |-> IF n = 1 THEN 700 ELSE 996]]]]

ArtifactUnreadable ==
    [readable |-> FALSE, numeric |-> TRUE, Metadata |-> <<>>,
     flow_columns |-> {}, flow_rows |-> <<>>]

NoArtifact == ArtifactUnreadable

Artifacts(stage, file) ==
    IF stage = 1 THEN {NoArtifact}
    ELSE {ArtifactFixed, ArtifactMirror(file), ArtifactUnreadable}

\* What the adapter does to one combination: the first driving step that
\* returns False ("none": all return True), whether every individual field
\* write of set_reverse_osmosis_parameters went through, and whether the
\* ledger file can be written.
FailPoints == {"tab_ro", "tab_summary", "report", "export", "none"}
AppendsOnFailureOnly(o) == o.fail_at = "export"
AppendsAlways(o) == TRUE
Appends(o) == o.fail_at \in {"export", "none"}
AllOutcomes ==
    {o \in [fail_at : FailPoints, field_ok : BOOLEAN, save_ok : BOOLEAN] :
        /\ ~(o.fail_at \in {"export", "none"}) => o.save_ok
        /\ o.fail_at = "tab_ro" => o.field_ok}
OutcomeCost(o) ==
    (IF o.fail_at = "none" THEN 0 ELSE 1) + (IF o.save_ok THEN 0 ELSE 1)
    + (IF o.field_ok THEN 0 ELSE 1)

\* set_reverse_osmosis_parameters: each field write is wrapped in its own
\* try/except that logs and goes on, so the method returns True whether or
\* not the writes went through.
set_reverse_osmosis_parameters(field_ok) == TRUE

\* _process_parameter_combination returns True when every step it tests
\* returned True.
ProcessSucceedsAlways(o) == TRUE
ProcessSucceeds(o) ==
    o.fail_at = "none" /\ set_reverse_osmosis_parameters(o.field_ok)

\* launch_wave: "ok"; "fail_start" fails before self.main_window is
\* assigned; "fail_window" fails waiting for the assigned window.
LaunchOutcomes == {"ok", "fail_start", "fail_window"}
LaunchCost(l) == IF l = "ok" THEN 0 ELSE 1

\* ------------------------------------------------------------------- state
VARIABLES
    disk,               \* report_metadata.csv in the export directory
    job,                \* config['stages'] of the configuration file
    pc,                 \* "off", "ready", "sweep", "done", "raised"
    runs,               \* invocations of the program so far
    faults,             \* adapter faults left to inject (None: unlimited)
    inject,             \* further kinds of fault the environment injects
    stages,             \* self.stages
    stage_configs,      \* the argument of run_parameter_sweep
    excel,              \* the content of self.prev_stage_excel_file
    main_window,        \* self.main_window is not None
    metadata_df,        \* self.metadata_df
    report_counter,     \* self.report_counter
    successful_runs, total_combinations, restart_counter,
    chains,             \* ancestor chains the outer loop has not reached
    prev_params,        \* the ancestor chain of the current outer iteration
    feed,               \* its resolved feed pressure (None before)
    todo,               \* combinations the (inner) loop has not reached
    ret,                \* what run_parameter_sweep returned (None before)
    driven,             \* history: combinations driven in this sweep
    restarts,           \* history: restarts completed in this sweep
    lookups,            \* history: result lookups made in this sweep
    last_op,            \* history: the last adapter operation of this sweep
    launch_fail,        \* history: "none", or the launch that failed:
                        \* "initial", "restart"
    last_save,          \* history: what save_metadata returned in the last
                        \* combination driven: "ok", "failed", "none" (not
                        \* called)
    last_drive,         \* history: the steps the last combination driven
                        \* executed and the fields it wrote
    alive,              \* history: instances of the application this sweep
                        \* started that are still open
    usable,             \* history: the most recent launch_wave returned True
                        \* and close_application was not called since
    peer,               \* a second process on the same export directory:
                        \* its metadata_df and report_counter (None: none)
    call,               \* a call of a pure function: its arguments
    result              \* what the call returned (None before)

vars == <<disk, job, pc, runs, faults, inject, stages, stage_configs, excel,
          main_window, metadata_df, report_counter, successful_runs,
          total_combinations, restart_counter, chains, prev_params, feed,
          todo, ret, driven, restarts, lookups, last_op, launch_fail,
          last_save, last_drive, alive, usable, peer, call, result>>

object_vars == <<stages, stage_configs, excel, main_window, metadata_df,
                 report_counter>>
sweep_vars == <<successful_runs, total_combinations, restart_counter, chains,
                prev_params, feed, todo, ret, driven, restarts, lookups,
                last_op, launch_fail, last_save, last_drive, alive, usable>>
pure_vars == <<call, result>>

\* The outcomes the environment may choose from.
Outcomes == {o \in AllOutcomes : o.field_ok \/ "field" \in inject}

\* close_application on an open window: TRUE when the window closed, FALSE
\* when main_window.close() or the exit confirmation raised.
CloseOutcomes == IF "close" \in inject THEN BOOLEAN ELSE {TRUE}
CloseCost(closed) == IF closed THEN 0 ELSE 1

Affordable(cost) == IF faults = None THEN TRUE ELSE cost <= faults[1]
Spend(cost) == IF faults = None THEN None ELSE Some(faults[1] - cost)

NoDrive == [steps |-> <<>>, writes |-> <<>>]

NoObject ==
    /\ stages = 0 /\ stage_configs = <<>> /\ excel = NoArtifact
    /\ main_window = FALSE /\ metadata_df = <<>> /\ report_counter = 0

NoSweep ==
    /\ successful_runs = 0 /\ total_combinations = 0 /\ restart_counter = 0
    /\ chains = <<>> /\ prev_params = <<>> /\ feed = None /\ todo = <<>>
    /\ ret = None /\ driven = <<>> /\ restarts = 0 /\ lookups = 0
    /\ last_op = "none" /\ launch_fail = "none" /\ last_save = "none"
    /\ last_drive = NoDrive
    /\ alive = 0 /\ usable = FALSE

InitWith(jobs, budget, kinds) ==
    /\ disk = NoFile
    /\ job \in jobs
    /\ pc = "off"
    /\ runs = 0
    /\ faults = budget
    /\ inject = kinds
    /\ NoObject
    /\ NoSweep
    /\ peer = None
    /\ call = None
    /\ result = None

Init == InitWith(SmallJobs, None, {})

\* ---------------------------------------------------------------- adapter
\* launch_wave assigns self.main_window unless it fails before that line.
LaunchWindow(l, window) == IF l = "fail_start" THEN window ELSE TRUE

\* close_application acts on the window only when self.main_window is set;
\* its result is ignored by every caller.
AfterCloseNever(window, op) == op
AfterClose(window, op) == IF window THEN "close" ELSE op

\* The instances open after launch_wave: Application.start has started one
\* unless the launch failed before the window was assigned.
AliveAfterLaunch(l, n) == IF l = "fail_start" THEN n ELSE n + 1

\* The instances open after close_application: the instance behind
\* self.main_window goes when the close goes through.
AliveAfterClose(window, closed, n) ==
    IF window /\ closed /\ n > 0 THEN n - 1 ELSE n

\* The steps of _process_parameter_combination, in the order of the code,
\* and the steps a combination executes: up to the first that fails.
StepOrder ==
    <<"select_tab_ro", "set_reverse_osmosis_parameters", "select_tab_summary",
      "open_detailed_report", "add_metadata_entry", "export_to_excel">>
StepsRun(o) ==
    IF o.fail_at = "tab_ro" THEN 1
    ELSE IF o.fail_at = "tab_summary" THEN 3
    ELSE IF o.fail_at = "report" THEN 4
    ELSE 6
DriveSteps(o) == SubSeq(StepOrder, 1, StepsRun(o))

\* The pressure set_reverse_osmosis_parameters writes for a stage tuple: the
\* fourth element of a tuple of four, the fifth of a tuple of five.
WritePressureFourth(values) == values[4]
WritePressure(values) == IF Len(values) = 5 THEN values[5] ELSE values[4]

\* The field writes of set_reverse_osmosis_parameters, in order: one group
\* per tuple of prev_stage_params + (cur_params,), numbered from 1.
FieldWrites(n, cur_params, prev_stage_params) ==
    LET pressure_param == IF n = 1 THEN cur_params.feed_pressure
                          ELSE cur_params.boost_pressure
        cur == <<cur_params.pv, cur_params.els, cur_params.element_type,
                 pressure_param>>
        params == IF n = 1 THEN <<cur>> ELSE Append(prev_stage_params, cur)
    IN  [cur_stage \in DOMAIN params |->
            [stage |-> IF n = 1 THEN n ELSE cur_stage,
             pv |-> params[cur_stage][1],
             els |-> params[cur_stage][2],
             element_type |-> params[cur_stage][3],
             pressure |-> WritePressure(params[cur_stage])]]

\* The last adapter operation of _process_parameter_combination.
LastDriveOp(o) ==
    IF o.fail_at \in {"tab_ro", "tab_summary"} THEN "select_tab"
    ELSE IF o.fail_at = "report" THEN "open_detailed_report"
    ELSE "export_to_excel"

\* ----------------------------------------------------------------- ledger
\* save_metadata: the file after the write, unchanged when the write fails.
save_metadata_last_row(df, file, save_ok) ==
    IF save_ok THEN to_csv(Append(file.rows, df[Len(df)])) ELSE file
save_metadata(df, file, save_ok) == IF save_ok THEN to_csv(df) ELSE file

\* add_metadata_entry: the row is appended, the table saved, the counter
\* advanced, the filename returned.
add_metadata_entry_advancing_twice(df, counter, file, stage_params, prev_stage_params, save_ok) ==
    LET new_df == Append(df, NewRow(counter, stage_params, prev_stage_params))
    IN  [df |-> new_df,
         file |-> save_metadata(new_df, file, save_ok),
         counter |-> counter + 2,
         filename |-> generate_report_filename(counter)]
add_metadata_entry_checked(df, counter, file, stage_params, prev_stage_params, save_ok) ==
    LET new_df == Append(df, NewRow(counter, stage_params, prev_stage_params))
    IN  [df |-> IF save_ok THEN new_df ELSE df,
         file |-> save_metadata(new_df, file, save_ok),
         counter |-> IF save_ok THEN counter + 1 ELSE counter,
         filename |-> generate_report_filename(counter)]
add_metadata_entry(df, counter, file, stage_params, prev_stage_params, save_ok) ==
    LET new_df == Append(df, NewRow(counter, stage_params, prev_stage_params))
    IN  [df |-> new_df,
         file |-> save_metadata(new_df, file, save_ok),
         counter |-> counter + 1,
         filename |-> generate_report_filename(counter)]

\* ---------------------------------------------------------------- actions
\* WaveUI.__init__ (with run_wave_automation's choice of the stage and the
\* artifact): a new process starts on the export directory.
Construct ==
    /\ pc = "off"
    /\ runs < MaxRuns
    /\ \E stage \in 1..Len(job) : \E art \in Artifacts(stage, disk) :
          /\ stages' = stage
          /\ stage_configs' = SubSeq(job, 1, stage)
          /\ excel' = art
    /\ main_window' = FALSE
    /\ report_counter' = IF disk.exists THEN ResumeCounter(disk) ELSE 1
    /\ metadata_df' = IF disk.exists THEN disk.rows ELSE <<>>
    /\ pc' = "ready"
    /\ UNCHANGED <<disk, job, runs, faults, inject>>
    /\ UNCHANGED sweep_vars
    /\ UNCHANGED <<pure_vars, peer>>

\* Whether a pressure step of the configs in use is zero (the division in
\* the enumeration then raises).
ZeroStep ==
    \/ StepOf(stage_configs[1], "feed_pressure_step") = 0
    \/ \E k \in 2..stages : StepOf(stage_configs[k], "target_pressure_step") = 0

\* _process_parameter_combination on cur_params / prev: the primed ledger,
\* counter and file, and the history.
Drive(o, cur_params, prev) ==
    LET added == add_metadata_entry(metadata_df, report_counter, disk,
                                    cur_params, prev, o.save_ok)
    IN  /\ metadata_df' = IF Appends(o) THEN added.df ELSE metadata_df
        /\ report_counter' = IF Appends(o) THEN added.counter ELSE report_counter
        /\ disk' = IF Appends(o) THEN added.file ELSE disk
        /\ driven' = Append(driven,
                            [cur |-> cur_params, prev |-> prev, feed |-> feed,
                             row |-> IF Appends(o) THEN Len(added.df) ELSE 0,
                             fields_ok |-> o.field_ok,
                             exported |-> Appends(o),
                             instance |-> restarts',
                             launched |-> usable',
                             ok |-> ProcessSucceeds(o)])
        /\ last_op' = LastDriveOp(o)
        /\ last_save' = IF ~Appends(o) THEN "none"
                        ELSE IF o.save_ok THEN "ok" ELSE "failed"
        /\ last_drive' = [steps |-> DriveSteps(o),
                          writes |-> IF StepsRun(o) >= 2
                                     THEN FieldWrites(stages, cur_params, prev)
                                     ELSE <<>>]

\* What the sweep returns when the initial launch fails.
InitialLaunchFailureResultCounters(successes, total) == <<successes, total>>
InitialLaunchFailureResult(successes, total) == <<0, 0>>

\* The restart check at the head of an iteration, and whether a failed
\* relaunch ends the sweep.
NeedRestartAbove(counter) == counter > restart_threshold
NeedRestart(counter) == counter >= restart_threshold

RestartAbortsNever(l) == FALSE
RestartAborts(l) == l # "ok"

\* restart_counter after an iteration: reset by a restart, advanced by a
\* successful combination.
NextRestartCounterPerAttempt(counter, restarted, success) ==
    (IF restarted THEN 0 ELSE counter) + 1
NextRestartCounter(counter, restarted, success) ==
    (IF restarted THEN 0 ELSE counter) + (IF success THEN 1 ELSE 0)

\* The combinations left to the loop after an iteration: the for loop moves
\* to the next one whether or not the iteration restarted the application
\* and whether or not the combination succeeded.
NextTodoSkipAfterRestart(left, restarted, success) ==
    IF restarted /\ Len(left) > 1 THEN Tail(Tail(left)) ELSE Tail(left)
NextTodoRetry(left, restarted, success) ==
    IF success THEN Tail(left) ELSE left
NextTodo(left, restarted, success) == Tail(left)

\* run_parameter_sweep up to the initial launch.
SweepStart ==
    /\ pc = "ready"
    /\ IF ZeroStep
       THEN /\ pc' = "raised"
            /\ last_op' = AfterClose(main_window, last_op)
            /\ alive' = AliveAfterClose(main_window, TRUE, alive)
            /\ usable' = FALSE
            /\ UNCHANGED <<disk, job, runs, faults, inject, object_vars,
                           successful_runs, total_combinations,
                           restart_counter, chains, prev_params, feed, todo,
                           ret, driven, restarts, lookups, launch_fail,
                           pure_vars, last_save, last_drive, peer>>
       ELSE \E l \in LaunchOutcomes : \E closed \in CloseOutcomes :
            /\ l = "ok" => closed
            /\ Affordable(LaunchCost(l) + CloseCost(closed))
            /\ faults' = Spend(LaunchCost(l) + CloseCost(closed))
            /\ main_window' = LaunchWindow(l, main_window)
            /\ usable' = (l = "ok")
            /\ alive' = IF l = "ok" THEN AliveAfterLaunch(l, alive)
                        ELSE \* return 0, 0: the finally clause closes
                             AliveAfterClose(main_window', closed,
                                             AliveAfterLaunch(l, alive))
            /\ IF l = "ok"
               THEN /\ pc' = "sweep"
                    /\ ret' = None
                    /\ last_op' = "launch_wave"
                    /\ launch_fail' = "none"
                    /\ IF stages = 1
                       THEN /\ todo' = Stage1Combinations(stage_configs[1])
                            /\ total_combinations' = Len(todo')
                            /\ chains' = <<>>
                       ELSE /\ todo' = <<>>
                            /\ total_combinations' = 0
                            /\ chains' = PrevStageChains(stage_configs, stages)
               ELSE /\ pc' = "done"
                    /\ total_combinations' =
                          IF stages = 1
                          THEN Len(Stage1Combinations(stage_configs[1]))
                          ELSE 0
                    /\ ret' = Some(InitialLaunchFailureResult(
                                      successful_runs, total_combinations'))
                    /\ last_op' = AfterClose(main_window', "launch_wave")
                    /\ launch_fail' = "initial"
                    /\ UNCHANGED <<todo, chains>>
            /\ UNCHANGED <<disk, job, runs, inject, stages, stage_configs, excel,
                           metadata_df, report_counter, successful_runs,
                           restart_counter, prev_params, feed, driven,
                           restarts, lookups, pure_vars, last_save, last_drive, peer>>

\* One iteration of the stage-1 loop: the restart check, then the combination.
Iterate1 ==
    /\ pc = "sweep" /\ stages = 1 /\ todo # <<>>
    /\ \E l \in LaunchOutcomes : \E o \in Outcomes :
       \E closed \in CloseOutcomes : \E closed_finally \in CloseOutcomes :
        LET need == NeedRestart(restart_counter)
            \* close_application(), then launch_wave()
            relaunched == AliveAfterLaunch(
                              l, AliveAfterClose(main_window, closed, alive))
            c == Head(todo)
            cur_params == [stage |-> stages, pv |-> c[1], els |-> c[2],
                           element_type |-> stage_configs[1].element_type,
                           feed_pressure |-> c[3]]
        IN  /\ need \/ (l = "ok" /\ closed)
            /\ IF need /\ RestartAborts(l)
               THEN \* break, then the finally clause and the return
                    /\ o.fail_at = "none" /\ o.save_ok /\ o.field_ok
                    /\ Affordable(LaunchCost(l) + CloseCost(closed)
                                  + CloseCost(closed_finally))
                    /\ faults' = Spend(LaunchCost(l) + CloseCost(closed)
                                       + CloseCost(closed_finally))
                    /\ main_window' = LaunchWindow(l, main_window)
                    /\ usable' = FALSE
                    /\ alive' = AliveAfterClose(main_window', closed_finally,
                                                relaunched)
                    /\ pc' = "done"
                    /\ ret' = Some(<<successful_runs, total_combinations>>)
                    /\ last_op' = AfterClose(main_window', "launch_wave")
                    /\ launch_fail' = "restart"
                    /\ UNCHANGED <<disk, metadata_df, report_counter,
                                   successful_runs, restart_counter, todo,
                                   driven, restarts, last_save, last_drive>>
               ELSE /\ closed_finally
                    /\ Affordable(OutcomeCost(o) + CloseCost(closed))
                    /\ faults' = Spend(OutcomeCost(o) + CloseCost(closed))
                    /\ main_window' = main_window
                    /\ usable' = IF need THEN l = "ok" ELSE usable
                    /\ alive' = IF need THEN relaunched ELSE alive
                    /\ pc' = "sweep"
                    /\ ret' = None
                    /\ restarts' = IF need /\ l = "ok" THEN restarts + 1
                                   ELSE restarts
                    /\ launch_fail' = IF need /\ l # "ok" THEN "restart"
                                      ELSE launch_fail
                    /\ Drive(o, cur_params, <<>>)
                    /\ successful_runs' =
                          IF ProcessSucceeds(o) THEN successful_runs + 1
                          ELSE successful_runs
                    /\ restart_counter' =
                          NextRestartCounter(restart_counter, need,
                                             ProcessSucceeds(o))
                    /\ todo' = NextTodo(todo, need, ProcessSucceeds(o))
    /\ UNCHANGED <<job, runs, inject, stages, stage_configs, excel,
                   total_combinations, chains, prev_params, feed, lookups,
                   pure_vars, peer>>

\* The combinations of one ancestor chain, in loop order: for each valid
\* target its boost, then itertools.product(current_pv_range, current_els_range).
ChainCombinations(config, valid_targets, feed_pressure) ==
    LET pe == Product2(PvRange(config), ElsRange(config))
    IN  Flatten([t \in DOMAIN valid_targets |->
                    [k \in DOMAIN pe |->
                        [target |-> valid_targets[t],
                         boost_pressure |->
                            Round1(valid_targets[t] - feed_pressure),
                         pv |-> pe[k][1], els |-> pe[k][2]]]])

\* The ancestor chain with the boost found for the immediate ancestor
\* appended to its tuple.
WithBoost(chain, prev_stage, prev_boost_pressure) ==
    IF prev_boost_pressure # None /\ prev_stage > 1 /\ Len(chain[prev_stage]) = 4
    THEN [chain EXCEPT ![prev_stage] = Append(@, prev_boost_pressure[1])]
    ELSE chain

\* The ancestor chains left to the outer loop after a lookup: the loop
\* continues with the next chain whether or not a feed pressure was found.
ChainsAfterLookupAbort(left, found_feed) ==
    IF found_feed = None THEN <<>> ELSE Tail(left)
ChainsAfterLookup(left, found_feed) == Tail(left)

\* The head of one iteration of the outer loop of the multi-stage path: the
\* result lookup for the next ancestor chain and the feasibility filter.
NextChain ==
    /\ pc = "sweep" /\ stages > 1 /\ todo = <<>> /\ chains # <<>>
    /\ LET chain == Head(chains)
           prev_stage == stages - 1
           p == chain[prev_stage]
           prev_stage_tuples == SubSeq(chain, 1, prev_stage - 1)
           found == get_pressure_from_excel(excel, prev_stage, p[1], p[2],
                                            p[3], p[4], prev_stage_tuples)
           target_values == TargetPressureValues(stage_configs[stages])
       IN  /\ lookups' = lookups + 1
           /\ chains' = ChainsAfterLookup(chains, found[2])
           /\ IF found[2] = None
              THEN \* continue: the chain is skipped
                   /\ todo' = <<>>
                   /\ prev_params' = chain
                   /\ feed' = None
              ELSE /\ prev_params' = WithBoost(chain, prev_stage, found[1])
                   /\ feed' = found[2]
                   /\ todo' = ChainCombinations(
                                 stage_configs[stages],
                                 get_valid_target_pressures(target_values,
                                                            found[2][1]),
                                 found[2][1])
    /\ UNCHANGED <<disk, job, pc, runs, faults, inject, object_vars, successful_runs,
                   total_combinations, restart_counter, ret, driven, restarts,
                   last_op, launch_fail, pure_vars, last_save, last_drive, alive,
                   usable, peer>>

\* One iteration of the innermost loop of the multi-stage path.
IterateMulti ==
    /\ pc = "sweep" /\ stages > 1 /\ todo # <<>>
    /\ \E l \in LaunchOutcomes : \E o \in Outcomes :
       \E closed \in CloseOutcomes : \E closed_finally \in CloseOutcomes :
        LET need == NeedRestart(restart_counter)
            \* close_application(), then launch_wave()
            relaunched == AliveAfterLaunch(
                              l, AliveAfterClose(main_window, closed, alive))
            c == Head(todo)
            cur_params == [stage |-> stages, pv |-> c.pv, els |-> c.els,
                           element_type |-> stage_configs[stages].element_type,
                           boost_pressure |-> c.boost_pressure,
                           target_pressure |-> c.target]
        IN  /\ need \/ (l = "ok" /\ closed)
            /\ total_combinations' = total_combinations + 1
            /\ IF need /\ RestartAborts(l)
               THEN \* return inside the loop, then the finally clause
                    /\ o.fail_at = "none" /\ o.save_ok /\ o.field_ok
                    /\ Affordable(LaunchCost(l) + CloseCost(closed)
                                  + CloseCost(closed_finally))
                    /\ faults' = Spend(LaunchCost(l) + CloseCost(closed)
                                       + CloseCost(closed_finally))
                    /\ main_window' = LaunchWindow(l, main_window)
                    /\ usable' = FALSE
                    /\ alive' = AliveAfterClose(main_window', closed_finally,
                                                relaunched)
                    /\ pc' = "done"
                    /\ ret' = Some(<<successful_runs, total_combinations'>>)
                    /\ last_op' = AfterClose(main_window', "launch_wave")
                    /\ launch_fail' = "restart"
                    /\ UNCHANGED <<disk, metadata_df, report_counter,
                                   successful_runs, restart_counter, todo,
                                   driven, restarts, last_save, last_drive>>
               ELSE /\ closed_finally
                    /\ Affordable(OutcomeCost(o) + CloseCost(closed))
                    /\ faults' = Spend(OutcomeCost(o) + CloseCost(closed))
                    /\ main_window' = main_window
                    /\ usable' = IF need THEN l = "ok" ELSE usable
                    /\ alive' = IF need THEN relaunched ELSE alive
                    /\ pc' = "sweep"
                    /\ ret' = None
                    /\ restarts' = IF need /\ l = "ok" THEN restarts + 1
                                   ELSE restarts
                    /\ launch_fail' = IF need /\ l # "ok" THEN "restart"
                                      ELSE launch_fail
                    /\ Drive(o, cur_params, prev_params)
                    /\ successful_runs' =
                          IF ProcessSucceeds(o) THEN successful_runs + 1
                          ELSE successful_runs
                    /\ restart_counter' =
                          NextRestartCounter(restart_counter, need,
                                             ProcessSucceeds(o))
                    /\ todo' = NextTodo(todo, need, ProcessSucceeds(o))
    /\ UNCHANGED <<job, runs, inject, stages, stage_configs, excel, chains,
                   prev_params, feed, lookups, pure_vars, peer>>

\* The loops are exhausted: the finally clause closes the application and
\* the counters are returned.
SweepEnd ==
    /\ pc = "sweep" /\ todo = <<>> /\ chains = <<>>
    /\ pc' = "done"
    /\ ret' = Some(<<successful_runs, total_combinations>>)
    /\ last_op' = AfterClose(main_window, last_op)
    /\ \E closed \in CloseOutcomes :
          /\ Affordable(CloseCost(closed))
          /\ faults' = Spend(CloseCost(closed))
          /\ alive' = AliveAfterClose(main_window, closed, alive)
    /\ usable' = FALSE
    /\ UNCHANGED <<disk, job, runs, inject, object_vars, successful_runs,
                   total_combinations, restart_counter, chains, prev_params,
                   feed, todo, driven, restarts, lookups, launch_fail,
                   pure_vars, last_save, last_drive, peer>>

\* An exception no handler of the loop body catches (the handlers catch
\* Exception; a KeyboardInterrupt is none) leaves run_parameter_sweep
\* through its finally clause.
Interrupt ==
    /\ pc = "sweep"
    /\ \E closed \in CloseOutcomes :
          /\ Affordable(1 + CloseCost(closed))
          /\ faults' = Spend(1 + CloseCost(closed))
          /\ alive' = AliveAfterClose(main_window, closed, alive)
    /\ usable' = FALSE
    /\ pc' = "raised"
    /\ last_op' = AfterClose(main_window, last_op)
    /\ UNCHANGED <<disk, job, runs, inject, object_vars, successful_runs,
                   total_combinations, restart_counter, chains, prev_params,
                   feed, todo, ret, driven, restarts, lookups, launch_fail,
                   pure_vars, last_save, last_drive, peer>>

\* The process ends; only the export directory remains.
Exit ==
    /\ pc \in {"done", "raised"}
    /\ pc' = "off"
    /\ runs' = runs + 1
    /\ stages' = 0 /\ stage_configs' = <<>> /\ excel' = NoArtifact
    /\ main_window' = FALSE /\ metadata_df' = <<>> /\ report_counter' = 0
    /\ successful_runs' = 0 /\ total_combinations' = 0 /\ restart_counter' = 0
    /\ chains' = <<>> /\ prev_params' = <<>> /\ feed' = None /\ todo' = <<>>
    /\ ret' = None /\ driven' = <<>> /\ restarts' = 0 /\ lookups' = 0
    /\ last_op' = "none" /\ launch_fail' = "none" /\ last_save' = "none"
    /\ last_drive' = NoDrive
    /\ alive' = 0 /\ usable' = FALSE
    /\ UNCHANGED <<disk, job, faults, inject, pure_vars, peer>>

\* The process is killed: no handler and no finally clause runs; only the
\* export directory remains.
Crash ==
    /\ pc \in {"ready", "sweep"}
    /\ pc' = "off"
    /\ runs' = runs + 1
    /\ stages' = 0 /\ stage_configs' = <<>> /\ excel' = NoArtifact
    /\ main_window' = FALSE /\ metadata_df' = <<>> /\ report_counter' = 0
    /\ successful_runs' = 0 /\ total_combinations' = 0 /\ restart_counter' = 0
    /\ chains' = <<>> /\ prev_params' = <<>> /\ feed' = None /\ todo' = <<>>
    /\ ret' = None /\ driven' = <<>> /\ restarts' = 0 /\ lookups' = 0
    /\ last_op' = "none" /\ launch_fail' = "none" /\ last_save' = "none"
    /\ last_drive' = NoDrive
    /\ alive' = 0 /\ usable' = FALSE
    /\ UNCHANGED <<disk, job, faults, inject, pure_vars, peer>>

Next ==
    \/ Construct
    \/ SweepStart
    \/ Iterate1
    \/ NextChain
    \/ IterateMulti
    \/ SweepEnd
    \/ Exit

Spec == Init /\ [][Next]_vars

\* One long sweep with a bounded number of adapter faults.
InitLong == InitWith(LongJobs, Some(MaxFaults), {})

NextLong ==
    \/ Construct
    \/ SweepStart
    \/ Iterate1
    \/ NextChain
    \/ IterateMulti
    \/ SweepEnd
    \/ Interrupt

SpecLong == InitLong /\ [][NextLong]_vars

\* The long sweep when close_application may fail to close the window.
InitClose == InitWith(LongJobs, Some(MaxFaults), {"close"})

SpecClose == InitClose /\ [][NextLong]_vars

\* One sweep, of a small job or of the long stage-1 job, when every adapter
\* operation and every lookup returns: run_parameter_sweep is sequential
\* code, so a step of it that can be taken is taken.
InitLive == Init \/ InitWith({JobLong1}, Some(MaxFaults), {})

SweepStep == SweepStart \/ Iterate1 \/ NextChain \/ IterateMulti \/ SweepEnd

NextLive ==
    \/ Construct
    \/ SweepStart
    \/ Iterate1
    \/ NextChain
    \/ IterateMulti
    \/ SweepEnd

SpecLive == InitLive /\ [][NextLive]_vars /\ WF_vars(SweepStep)

\* The small sweep with failing field writes, uncaught exceptions and
\* killed processes.
InitFault == InitWith({JobSmall}, None, {"field"})

NextFault ==
    \/ Construct
    \/ SweepStart
    \/ Iterate1
    \/ NextChain
    \/ IterateMulti
    \/ SweepEnd
    \/ Interrupt
    \/ Crash
    \/ Exit

SpecFault == InitFault /\ [][NextFault]_vars

\* ------------------------------------------- two processes, one directory
\* A second process runs the same program on the same export directory
\* while the first is at work.  Each of its steps is one call of the
\* program: the constructor (the ledger is loaded, the counter set), and
\* add_metadata_entry for a combination of its own sweep.
JobTwo == <<JobSmall[1]>>

PeerParams(counter) ==
    [stage |-> 1, pv |-> 10 + counter, els |-> 1, element_type |-> "NF90",
     feed_pressure |-> 1000]

PeerStart ==
    /\ peer = None
    /\ peer' = Some([metadata_df |-> IF disk.exists THEN disk.rows ELSE <<>>,
                     report_counter |-> IF disk.exists THEN ResumeCounter(disk)
                                        ELSE 1])
    /\ UNCHANGED <<disk, job, pc, runs, faults, inject, object_vars,
                   sweep_vars, pure_vars>>

PeerAppend ==
    /\ peer # None
    /\ peer[1].report_counter <= MaxPeerAppends
    /\ LET added == add_metadata_entry(peer[1].metadata_df,
                                       peer[1].report_counter, disk,
                                       PeerParams(peer[1].report_counter),
                                       <<>>, TRUE)
       IN  /\ peer' = Some([metadata_df |-> added.df,
                            report_counter |-> added.counter])
           /\ disk' = added.file
    /\ UNCHANGED <<job, pc, runs, faults, inject, object_vars, sweep_vars,
                   pure_vars>>

InitTwo == InitWith({JobTwo}, None, {})

NextTwo ==
    \/ Construct
    \/ SweepStart
    \/ Iterate1
    \/ SweepEnd
    \/ Exit
    \/ PeerStart
    \/ PeerAppend

SpecTwo == InitTwo /\ [][NextTwo]_vars

\* ------------------------------------------------------------ invocation
\* load_json_config: whether the configuration passes the validation (it
\* raises ValueError otherwise).  config.common is the set of keys of the
\* 'common' section; a range is the sequence the JSON list holds.
RequiredCommon ==
    {"wave_exe", "project_path", "project_name", "case_name", "feed_flow_rate"}

RangeValid(stage, key) == key \in DOMAIN stage /\ Len(stage[key]) = 2

StageValid(i, stage) ==
    /\ {"element_type", "pv_range", "els_range"} \subseteq DOMAIN stage
    /\ Len(stage.pv_range) = 2
    /\ Len(stage.els_range) = 2
    /\ IF i = 1 THEN RangeValid(stage, "feed_pressure_range")
       ELSE RangeValid(stage, "target_pressure_range")

load_json_config(config) ==
    /\ "common" \in DOMAIN config
    /\ "stages" \in DOMAIN config
    /\ RequiredCommon \subseteq config.common
    /\ config.stages # <<>>
    /\ \A i \in DOMAIN config.stages : StageValid(i, config.stages[i])

\* run_wave_automation up to the construction of the WaveUI: whether the
\* invocation gets there (it raises otherwise).
PrevStageExcelMissingNever(stage_to_run, prev_stage_excel) == FALSE
PrevStageExcelMissing(stage_to_run, prev_stage_excel) ==
    stage_to_run > 1 /\ prev_stage_excel = None

InvocationAccepted(config, stage_to_run, prev_stage_excel) ==
    /\ load_json_config(config)
    /\ ~(stage_to_run < 1 \/ stage_to_run > Len(config.stages))
    /\ ~PrevStageExcelMissing(stage_to_run, prev_stage_excel)
    /\ "export_dir" \in config.common

\* The invocations: configuration files that pass the validation, ones
\* that lack a key or hold a range that is no [min, max] pair, and ones
\* with a pressure step of zero or below; each with every stage number
\* from 0 to one past the configured stages, with and without an artifact.
AllCommon == RequiredCommon \cup {"export_dir"}

StagesNoElementType ==
    [JobSmall EXCEPT ![1] = [pv_range |-> <<1, 2>>, els_range |-> <<1, 1>>,
                             feed_pressure_range |-> <<1000, 1000>>]]
StagesNoFeedRange ==
    [JobSmall EXCEPT ![1] = [element_type |-> "NF90", pv_range |-> <<1, 2>>,
                             els_range |-> <<1, 1>>]]
StagesNoTargetRange ==
    [JobSmall EXCEPT ![2] = [element_type |-> "BW30", pv_range |-> <<1, 1>>,
                             els_range |-> <<1, 1>>]]
StagesShortPvRange == [JobSmall EXCEPT ![1].pv_range = <<1>>]
StagesLongElsRange == [JobSmall EXCEPT ![2].els_range = <<1, 1, 1>>]
StagesShortFeedRange == [JobSmall EXCEPT ![1].feed_pressure_range = <<1000>>]
StagesLongTargetRange ==
    [JobSmall EXCEPT ![3].target_pressure_range = <<4000, 4000, 4000>>]

StagesZeroFeedStep == [JobSmall EXCEPT ![1].feed_pressure_step = 0]
StagesZeroTargetStep == [JobSmall EXCEPT ![2].target_pressure_step = 0]
StagesNegativeFeedStep ==
    [JobSmall EXCEPT ![1].feed_pressure_range = <<1000, 2000>>,
                     ![1].feed_pressure_step = -100]
StagesDescendingFeed ==
    [JobSmall EXCEPT ![1].feed_pressure_range = <<2000, 1000>>,
                     ![1].feed_pressure_step = -1000]
StagesNegativeTargetStep == [JobSmall EXCEPT ![2].target_pressure_step = -1000]

InvocationConfigs ==
    {[common |-> AllCommon, stages |-> st] :
        st \in {JobSmall, <<>>, StagesNoElementType, StagesNoFeedRange,
                StagesNoTargetRange, StagesShortPvRange, StagesLongElsRange,
                StagesShortFeedRange, StagesLongTargetRange,
                StagesZeroFeedStep, StagesZeroTargetStep,
                StagesNegativeFeedStep, StagesDescendingFeed,
                StagesNegativeTargetStep}}
    \cup
    {[common |-> AllCommon \ {k}, stages |-> JobSmall] :
        k \in {"wave_exe", "feed_flow_rate", "export_dir"}}
    \cup
    {[common |-> AllCommon], [stages |-> JobSmall]}

Invocations ==
    [fn : {"main"}, config : InvocationConfigs,
     stage_to_run : 0..(Len(JobSmall) + 1),
     prev_stage_excel : {None, Some(ArtifactFixed)}]

InitInvoke ==
    /\ disk = NoFile
    /\ job = <<>>
    /\ pc = "off"
    /\ runs = 0
    /\ faults = Some(MaxFaults)
    /\ inject = {}
    /\ NoObject
    /\ NoSweep
    /\ peer = None
    /\ call \in Invocations
    /\ result = None

\* run_wave_automation: the validation, then WaveUI.__init__ on the stage
\* and the artifact of the command line; an exception of the validation
\* leaves the function before a WaveUI exists.
RunWaveAutomation ==
    /\ pc = "off" /\ runs = 0
    /\ IF InvocationAccepted(call.config, call.stage_to_run,
                             call.prev_stage_excel)
       THEN /\ job' = call.config.stages
            /\ stages' = call.stage_to_run
            /\ stage_configs' = SubSeq(call.config.stages, 1,
                                       call.stage_to_run)
            /\ excel' = IF call.prev_stage_excel = None THEN NoArtifact
                        ELSE call.prev_stage_excel[1]
            /\ main_window' = FALSE
            /\ report_counter' = IF disk.exists THEN ResumeCounter(disk)
                                 ELSE 1
            /\ metadata_df' = IF disk.exists THEN disk.rows ELSE <<>>
            /\ pc' = "ready"
       ELSE /\ pc' = "raised"
            /\ UNCHANGED <<job, object_vars>>
    /\ UNCHANGED <<disk, runs, faults, inject, sweep_vars, pure_vars, peer>>

NextInvoke ==
    \/ RunWaveAutomation
    \/ SweepStart
    \/ Iterate1
    \/ NextChain
    \/ IterateMulti
    \/ SweepEnd
    \/ Exit

SpecInvoke == InitInvoke /\ [][NextInvoke]_vars

\* -------------------------------------------------- pure functions alone
\* The enumerator and the feasibility filter called on their own, on
\* arguments drawn from small sets.
EnumPressures == {950, 1000, 2000}
EnumSteps == {50, 1000}

EnumConfigs ==
    LET ranges == {<<a, b>> : a \in 1..MaxRange, b \in 1..MaxRange}
        base == [element_type : {"NF90"}, pv_range : ranges,
                 els_range : ranges,
                 feed_pressure_range : EnumPressures \X EnumPressures]
    IN  base \cup
        {c @@ [feed_pressure_step |-> st] : c \in base, st \in EnumSteps}

FilterTargets == {990, 1000, 1004, 1010}
FilterFeeds == {990, 1000, 1005}

\* Direct lookups.  The ancestor tuples (pv, els, element_type, pressure)
\* of the entries and of the criteria; the stage-2 ancestor also with a
\* boost in fifth position.
LookupAncestor1(pv) == <<pv, 1, "NF90", 1000>>
LookupAncestor2 == <<1, 1, "BW30", 2000>>
LookupAncestors2 ==
    {LookupAncestor2, Append(LookupAncestor2, 1000),
     Append(LookupAncestor2, 500)}

\* The entries of the Metadata sheets, as <<stage_params, prev_stage_params>>
\* of add_metadata_entry: stage-1 entries, stage-2 entries behind either
\* stage-1 ancestor, stage-3 entries whose stage-2 ancestor was stored with
\* or without its boost.
LookupEntries ==
    {<<[stage |-> 1, pv |-> pv, els |-> 1, element_type |-> "NF90",
        feed_pressure |-> 1000], <<>>>> : pv \in 1..2}
    \cup
    {<<[stage |-> 2, pv |-> 1, els |-> 1, element_type |-> "BW30",
        boost_pressure |-> 1000, target_pressure |-> 2000],
       <<LookupAncestor1(pv)>>>> : pv \in 1..2}
    \cup
    {<<[stage |-> 3, pv |-> 1, els |-> 1, element_type |-> "SW30",
        boost_pressure |-> 2000, target_pressure |-> 4000],
       <<LookupAncestor1(1), a2>>>> : a2 \in LookupAncestors2}

\* The Metadata sheets: up to MaxRows entries, the i-th appended under
\* counter i.
LookupTables ==
    {[i \in DOMAIN es |-> NewRow(i, es[i][1], es[i][2])] :
        es \in UNION {[1..n -> LookupEntries] : n \in 0..MaxRows}}

\* The element_flow sheets that go with a Metadata sheet.  "full": one row
\* per report, columns row_9_Feed_Press and row_10_Feed_Press; "doubled":
\* every report named by a second row further down; "norow": no row names
\* a report of the Metadata sheet; "nocolumn": no Feed_Press column;
\* "text": the cells are not numbers.
FlowKinds == {"full", "doubled", "norow", "nocolumn", "text"}
FlowValue(i, n) == IF n = 10 THEN 1000 * i + 456 ELSE 9000 + i
LookupArtifact(table, kind) ==
    LET cols == IF kind = "nocolumn" THEN {} ELSE {9, 10}
        rows == [i \in DOMAIN table |->
                    [cell |-> IF kind = "norow"
                              THEN generate_report_filename(Len(table) + i)
                              ELSE table[i].filename,
                     press |-> [n \in cols |-> FlowValue(i, n)]]]
        more == [i \in DOMAIN table |->
                    [cell |-> table[i].filename,
                     press |-> [n \in cols |-> FlowValue(i, n) + 100]]]
    IN  [readable |-> TRUE, numeric |-> kind # "text", Metadata |-> table,
         flow_columns |-> cols,
         flow_rows |-> IF kind = "doubled" THEN rows \o more ELSE rows]

\* The criteria of the lookups: (stage, pv, els, element_type, pressure,
\* prev_stage_params).
LookupCriteria ==
    {<<1, pv, 1, "NF90", 1000, <<>>>> : pv \in 1..2}
    \cup
    {<<2, 1, 1, "BW30", 2000, ch>> :
        ch \in {<<>>, <<LookupAncestor1(1)>>, <<LookupAncestor1(2)>>}}
    \cup
    {<<3, 1, 1, "SW30", 4000, <<LookupAncestor1(1), a2>>>> :
        a2 \in LookupAncestors2}
    \cup
    {<<3, 1, 1, "SW30", 4000, <<LookupAncestor1(1)>>>>,
     <<3, 1, 1, "SW30", 4000, <<LookupAncestor1(2), LookupAncestor2>>>>}

LookupCalls ==
    {[fn |-> "lookup", excel |-> LookupArtifact(t, k), kind |-> k,
      criteria |-> c] :
        t \in LookupTables, k \in FlowKinds, c \in LookupCriteria}
    \cup
    {[fn |-> "lookup", excel |-> ArtifactUnreadable, kind |-> "unreadable",
      criteria |-> c] : c \in LookupCriteria}

PureCalls ==
    {[fn |-> "enumerate", config |-> c] : c \in EnumConfigs}
    \cup
    {[fn |-> "filter", target_values |-> t, feed_pressure |-> f] :
        t \in UNION {[1..n -> FilterTargets] : n \in 0..MaxTargets},
        f \in FilterFeeds}
    \cup LookupCalls

InitPure ==
    /\ disk = NoFile
    /\ job = <<>>
    /\ pc = "pure"
    /\ runs = 0
    /\ faults = None
    /\ inject = {}
    /\ NoObject
    /\ NoSweep
    /\ peer = None
    /\ call \in PureCalls
    /\ result = None

CallEnumerate ==
    /\ pc = "pure" /\ result = None /\ call.fn = "enumerate"
    /\ result' = Some(Stage1Combinations(call.config))
    /\ UNCHANGED <<disk, job, pc, runs, faults, inject, object_vars, sweep_vars, call, peer>>

CallFilter ==
    /\ pc = "pure" /\ result = None /\ call.fn = "filter"
    /\ result' = Some(get_valid_target_pressures(call.target_values,
                                                 call.feed_pressure))
    /\ UNCHANGED <<disk, job, pc, runs, faults, inject, object_vars, sweep_vars, call, peer>>

CallLookup ==
    /\ pc = "pure" /\ result = None /\ call.fn = "lookup"
    /\ LET c == call.criteria
       IN  result' = Some(get_pressure_from_excel(call.excel, c[1], c[2], c[3],
                                                  c[4], c[5], c[6]))
    /\ UNCHANGED <<disk, job, pc, runs, faults, inject, object_vars, sweep_vars, call, peer>>

NextPure ==
    \/ CallEnumerate
    \/ CallFilter
    \/ CallLookup

SpecPure == InitPure /\ [][NextPure]_vars

\* ================================================================ claims
\* Helpers of the statements below (they model no code).
RECURSIVE NumberOf(_)
NumberOf(ds) ==
    IF ds = <<>> THEN 0
    ELSE 10 * NumberOf(SubSeq(ds, 1, Len(ds) - 1)) + ds[Len(ds)]

DistinctFilenames(rows) ==
    \A i, j \in DOMAIN rows : i # j => rows[i].filename # rows[j].filename

CountOk(ds) == Cardinality({k \in DOMAIN ds : ds[k].ok})

RolePressure(d) == IF d.stage = 1 THEN d.feed_pressure ELSE d.target_pressure

\* The identifying keys of a ledger row: the current stage's and, per
\* ancestor, pv, els, element_type and the role-appropriate pressure.
RowKeys(row) ==
    LET cur  == json_loads(row.current_stage_params)
        prev == json_loads_list(row.previous_stages_params)
    IN  <<cur.stage, cur.pv, cur.els, cur.element_type, RolePressure(cur),
          [i \in DOMAIN prev |->
              <<prev[i].pv, prev[i].els, prev[i].element_type,
                RolePressure(prev[i])>>]>>

\* The ancestor tuples of a row as the sweep passes them: without the
\* boost, and as stored (with the boost where the row has one).
RowChainStored(row) ==
    LET prev == json_loads_list(row.previous_stages_params)
    IN  [i \in DOMAIN prev |->
            <<prev[i].pv, prev[i].els, prev[i].element_type,
              RolePressure(prev[i])>>
            \o (IF "boost_pressure" \in DOMAIN prev[i]
                THEN <<prev[i].boost_pressure>> ELSE <<>>)]

\* ---------------------------------------------------------------------
\* C1: across appends and re-invocations on one export directory, no two
\* ledger entries carry the same filename (in memory or in the file).
C1_UniqueFilenames ==
    DistinctFilenames(metadata_df) /\ DistinctFilenames(disk.rows)

\* C2: a process constructed on a directory whose ledger file holds N >= 1
\* entries has its counter at max(existing ids) + 1, above every filename
\* in the ledger; with no ledger file the ledger is empty and the counter 1.
C2_ResumeCounter ==
    pc = "ready" =>
        IF disk.exists
        THEN disk.rows # <<>> =>
                /\ \A i \in DOMAIN disk.rows :
                      NumberOf(disk.rows[i].filename) < report_counter
                /\ \E i \in DOMAIN disk.rows :
                      report_counter = NumberOf(disk.rows[i].filename) + 1
        ELSE metadata_df = <<>> /\ report_counter = 1

\* C3: ledger round trip.  A lookup with the keys of any appended entry
\* (with its ancestor chain when the stage is above 1) resolves to the
\* filename of an entry holding exactly those keys; a lookup whose keys no
\* entry holds finds nothing.
\* Key tuples next to a row's: one key changed, in the current stage or in
\* an ancestor, or one more ancestor.
NearbyKeys(keys) ==
    {[keys EXCEPT ![2] = @ + 1], [keys EXCEPT ![3] = @ + 1],
     [keys EXCEPT ![4] = "XLE"], [keys EXCEPT ![5] = @ + 1000],
     [keys EXCEPT ![5] = @ - 1000],
     [keys EXCEPT ![6] = Append(@, <<1, 1, "XLE", 1000>>)]}
    \cup {[keys EXCEPT ![6][i][1] = @ + 1] : i \in DOMAIN keys[6]}
    \cup {[keys EXCEPT ![6][i][2] = @ + 1] : i \in DOMAIN keys[6]}
    \cup {[keys EXCEPT ![6][i][3] = "XLE"] : i \in DOMAIN keys[6]}
    \cup {[keys EXCEPT ![6][i][4] = @ + 1000] : i \in DOMAIN keys[6]}

C3_LedgerRoundTrip ==
    LET keys == [i \in DOMAIN metadata_df |-> RowKeys(metadata_df[i])]
        held == {keys[i] : i \in DOMAIN metadata_df}
    IN  /\ \A i \in DOMAIN metadata_df :
              \A chain \in {keys[i][6], RowChainStored(metadata_df[i])} :
                 LET j == FindRow(metadata_df, keys[i][1], keys[i][2],
                                  keys[i][3], keys[i][4], keys[i][5], chain)
                 IN  /\ j # 0
                     /\ keys[j] = keys[i]
                     /\ FindFilename(metadata_df, keys[i][1], keys[i][2],
                                     keys[i][3], keys[i][4], keys[i][5], chain)
                           = Some(metadata_df[j].filename)
        /\ \A i \in DOMAIN metadata_df : \A k \in NearbyKeys(keys[i]) :
              (k \notin held /\ (k[1] = 1 \/ k[6] # <<>>))
                 => FindFilename(metadata_df, k[1], k[2], k[3], k[4], k[5],
                                 k[6]) = None

\* A ledger with a stage-3 entry (a two-ancestor chain) and entries of the
\* same stage that differ in the pressure only.
C3_Witness ==
    /\ \E i \in DOMAIN metadata_df : RowKeys(metadata_df[i])[1] = 3
    /\ \E i, j \in DOMAIN metadata_df :
          /\ RowKeys(metadata_df[i])[1] = 2 /\ RowKeys(metadata_df[j])[1] = 2
          /\ RowKeys(metadata_df[i])[5] # RowKeys(metadata_df[j])[5]

\* C4: enumerator completeness.  For a step s > 0 the enumerator yields
\* one combination for each triple (pv in a..b, els in c..d, p0 + i*s for
\* i in 0..floor((p1-p0)/s)): that many, none twice, no pressure above p1.
C4_EnumeratorComplete ==
    (pc = "pure" /\ result # None /\ call.fn = "enumerate") =>
        LET cfg == call.config
            s   == StepOf(cfg, "feed_pressure_step")
            p0  == cfg.feed_pressure_range[1]
            p1  == cfg.feed_pressure_range[2]
            triples == {<<pv, els, Round1(p0 + i * s)>> :
                           pv \in cfg.pv_range[1]..cfg.pv_range[2],
                           els \in cfg.els_range[1]..cfg.els_range[2],
                           i \in 0..((p1 - p0) \div s)}
            out == result[1]
        IN  s > 0 =>
               /\ Len(out) = Cardinality(triples)
               /\ SeqToSet(out) = triples
               /\ \A k \in DOMAIN out : out[k][3] <= p1

\* C5: a stage config with an empty dimension (pv min > max, els min > max,
\* or pressure min > max with a positive step) has zero combinations: none
\* is driven, total_combinations is 0 and the sweep returns without raising.
EmptyDimension(cfg, stage) ==
    \/ cfg.pv_range[1] > cfg.pv_range[2]
    \/ cfg.els_range[1] > cfg.els_range[2]
    \/ IF stage = 1
       THEN /\ cfg.feed_pressure_range[1] > cfg.feed_pressure_range[2]
            /\ StepOf(cfg, "feed_pressure_step") > 0
       ELSE /\ cfg.target_pressure_range[1] > cfg.target_pressure_range[2]
            /\ StepOf(cfg, "target_pressure_step") > 0

C5_EmptyRangeNoCombination ==
    (pc \in {"sweep", "done", "raised"}
     /\ EmptyDimension(stage_configs[stages], stages)) =>
        /\ pc # "raised"
        /\ driven = <<>>
        /\ total_combinations = 0
        /\ pc = "done" => ret = Some(<<0, 0>>)

\* C6: feasibility filter.  The filter returns exactly the targets t with
\* round(t - F, 1) > 0, in their original order.
C6_FilterRoundedBoost ==
    (pc = "pure" /\ result # None /\ call.fn = "filter") =>
        result[1] = SelectSeq(call.target_values,
                              LAMBDA t : Round1(t - call.feed_pressure) > 0)

\* C7: in a sweep for a stage above 1, every combination driven and every
\* ledger entry appended carries boost_pressure = round(target_pressure -
\* feed pressure resolved for its ancestor chain, 1), strictly positive.
ResolvedFeed(prev) ==
    LET p == prev[stages - 1]
    IN  get_pressure_from_excel(excel, stages - 1, p[1], p[2], p[3], p[4],
                                SubSeq(prev, 1, stages - 2))[2]

C7_BoostPositive ==
    /\ \A k \in DOMAIN driven :
          LET d == driven[k]
          IN  d.cur.stage > 1 =>
                 /\ d.feed # None
                 /\ d.feed = ResolvedFeed(d.prev)
                 /\ d.cur.boost_pressure
                       = Round1(d.cur.target_pressure - d.feed[1])
                 /\ d.cur.boost_pressure > 0
                 /\ d.row # 0 =>
                       json_loads(metadata_df[d.row].current_stage_params)
                          = d.cur
    /\ \A i \in DOMAIN metadata_df :
          LET cur == json_loads(metadata_df[i].current_stage_params)
          IN  cur.stage > 1 => cur.boost_pressure > 0

\* A stage-2 combination was driven and recorded behind a chain whose feed
\* pressure equals the lowest target, which the filter left out.
C7_Witness ==
    /\ stages = 2 /\ feed = Some(1000)
    /\ \E k \in DOMAIN driven :
          /\ driven[k].row # 0
          /\ driven[k].cur.target_pressure = 2000
          /\ driven[k].cur.boost_pressure = 1000
    /\ \A k \in DOMAIN driven : driven[k].cur.target_pressure # 1000

\* C8: restart cadence.  The application is closed and relaunched once for
\* every restart_threshold successful combinations; failed combinations do
\* not advance the restart counter.
C8_RestartCadence ==
    pc \in {"sweep", "done"} =>
        /\ successful_runs = CountOk(driven)
        /\ successful_runs = restarts * restart_threshold + restart_counter
        /\ restart_counter >= 0
        /\ restart_counter <= restart_threshold
        /\ (pc = "sweep" /\ driven # <<>> /\ ~driven[Len(driven)].ok)
              => restart_counter < restart_threshold

\* A restart happened in a sweep in which a combination had failed.
C8_Witness ==
    /\ restarts = 1
    /\ launch_fail = "none"
    /\ successful_runs < Len(driven)
    /\ successful_runs > restart_threshold

\* C9: when the relaunch of a restart fails, no further combination is
\* driven, no further ledger entry is appended, and the sweep returns the
\* success counter accumulated before the failure.
C9_RestartFailureHalts ==
    [][launch_fail' = "restart" =>
          /\ driven' = driven
          /\ metadata_df' = metadata_df
          /\ disk' = disk
          /\ pc' = "done"
          /\ ret' # None
          /\ ret'[1][1] = successful_runs
          /\ successful_runs = CountOk(driven)]_vars

\* The relaunch failed in the multi-stage path after restart_threshold
\* successes, with combinations left.
C9_Witness ==
    /\ launch_fail = "restart"
    /\ stages = 2
    /\ todo # <<>>
    /\ ret = Some(<<restart_threshold, restart_threshold + 1>>)

\* C10: when the initial launch fails the sweep returns (0, 0) without
\* raising; nothing is driven, no result lookup is made and no ledger
\* entry is appended.
C10_InitialLaunchFailure ==
    launch_fail = "initial" =>
        /\ pc = "done"
        /\ ret = Some(<<0, 0>>)
        /\ driven = <<>>
        /\ lookups = 0
        /\ metadata_df = (IF disk.exists THEN disk.rows ELSE <<>>)

\* The initial launch failed for a stage-1 sweep with combinations to run,
\* on a directory that already holds a ledger.
C10_Witness ==
    /\ launch_fail = "initial"
    /\ stages = 1
    /\ total_combinations > 0
    /\ disk.exists

\* ---------------------------------------------------------------------
IsPrefix(s, t) == Len(s) <= Len(t) /\ SubSeq(t, 1, Len(s)) = s

\* C11: guaranteed cleanup.  On every exit path of the sweep (normal
\* completion, launch failure, restart failure, an exception raised inside
\* the loop) the close of the application is the last adapter operation;
\* close_application finds no window to close only when no launch got as
\* far as the window, and then nothing was driven.
C11_GuaranteedCleanup ==
    pc \in {"done", "raised"} =>
        IF main_window
        THEN last_op = "close"
        ELSE last_op \in {"none", "launch_wave"} /\ driven = <<>>

\* An exception left the loop after a restart, and the application was
\* closed.
C11_Witness ==
    /\ pc = "raised"
    /\ restarts = 1
    /\ driven # <<>>
    /\ last_op = "close"

\* C12: a failing combination never aborts the sweep.  As long as no launch
\* or restart fails, the combinations driven are the enumerated (for a stage
\* above 1: feasible) ones, each once, in enumeration order, whatever
\* failed before and whatever restarts came in between.
DrivenKeys ==
    [k \in DOMAIN driven |->
        <<driven[k].cur.pv, driven[k].cur.els, RolePressure(driven[k].cur),
          driven[k].prev>>]

ExpectedStage1 ==
    LET combos == Stage1Combinations(stage_configs[1])
    IN  [k \in DOMAIN combos |->
            <<combos[k][1], combos[k][2], combos[k][3], <<>>>>]

ExpectedMulti ==
    LET all == PrevStageChains(stage_configs, stages)
        targets == TargetPressureValues(stage_configs[stages])
        OfChain(chain) ==
            LET p == chain[stages - 1]
                found == get_pressure_from_excel(
                             excel, stages - 1, p[1], p[2], p[3], p[4],
                             SubSeq(chain, 1, stages - 2))
            IN  IF found[2] = None THEN <<>>
                ELSE LET F == found[2][1]
                         feasible == SelectSeq(targets,
                                        LAMBDA t : Round1(t - F) > 0)
                         pe == Product2(PvRange(stage_configs[stages]),
                                        ElsRange(stage_configs[stages]))
                     IN  Flatten([t \in DOMAIN feasible |->
                            [k \in DOMAIN pe |->
                                <<pe[k][1], pe[k][2], feasible[t],
                                  WithBoost(chain, stages - 1, found[1])>>]])
    IN  Flatten([j \in DOMAIN all |-> OfChain(all[j])])

ExpectedDriven == IF stages = 1 THEN ExpectedStage1 ELSE ExpectedMulti

C12_FailureNeverAborts ==
    (pc \in {"sweep", "done", "raised"} /\ launch_fail = "none") =>
        /\ IsPrefix(DrivenKeys, ExpectedDriven)
        /\ pc = "done" => DrivenKeys = ExpectedDriven

\* A multi-stage sweep ran to its end through a failed combination and a
\* restart.
C12_Witness ==
    /\ pc = "done" /\ launch_fail = "none"
    /\ stages = 2
    /\ restarts = 1
    /\ Len(driven) = LongPv
    /\ \E k \in DOMAIN driven : ~driven[k].ok

\* C13: a combination is counted in successful_runs only if every driving
\* step succeeded, every individual field write included.
C13_SuccessNeedsEveryStep ==
    /\ \A k \in DOMAIN driven : driven[k].ok => driven[k].fields_ok
    /\ pc \in {"sweep", "done", "raised"} =>
          successful_runs
             = Cardinality({k \in DOMAIN driven :
                               driven[k].exported /\ driven[k].row # 0
                               /\ driven[k].ok /\ driven[k].fields_ok})

\* C14: the total_combinations a sweep returns is the number of
\* combinations that were attempted (driven through the application).
C14_TotalIsAttempted ==
    (pc = "done" /\ ret # None) => ret[1][2] = Len(driven)

\* C15: a stage-1 sweep in which every adapter operation succeeds (every
\* restart included) returns successful_runs = total_combinations = the
\* number of enumerated combinations and appends that many ledger entries.
AllAdapterOperationsSucceeded ==
    /\ launch_fail = "none"
    /\ \A k \in DOMAIN driven : driven[k].ok /\ driven[k].fields_ok

C15_AllSucceedStage1 ==
    (pc = "done" /\ stages = 1 /\ AllAdapterOperationsSucceeded) =>
        LET n == Len(Stage1Combinations(stage_configs[1]))
        IN  /\ ret = Some(<<n, n>>)
            /\ Len(driven) = n
            /\ {driven[k].row : k \in DOMAIN driven}
                  = (Len(metadata_df) - n + 1)..Len(metadata_df)

\* Such a sweep, long enough to restart the application once.
C15_Witness ==
    /\ pc = "done" /\ stages = 1 /\ AllAdapterOperationsSucceeded
    /\ restarts = 1
    /\ ret = Some(<<LongPv, LongPv>>)

\* C16: in a multi-stage sweep, when the feed pressure resolved for an
\* ancestor chain is at or above every configured target pressure, nothing
\* is attempted for that chain (nothing driven, no ledger entry, no change
\* of total_combinations) and the sweep goes on to the next chain.
C16_InfeasibleChainSkipped ==
    /\ [](\A k \in DOMAIN driven :
             driven[k].cur.stage > 1 =>
                \E t \in SeqToSet(TargetPressureValues(stage_configs[stages])) :
                    driven[k].feed # None /\ t > driven[k].feed[1])
    /\ [][(/\ lookups' = lookups + 1
            /\ ResolvedFeed(Head(chains)) # None
            /\ \A t \in SeqToSet(TargetPressureValues(stage_configs[stages])) :
                   ResolvedFeed(Head(chains))[1] >= t)
           => /\ todo' = <<>>
              /\ driven' = driven
              /\ metadata_df' = metadata_df
              /\ disk' = disk
              /\ total_combinations' = total_combinations
              /\ pc' = "sweep"
              /\ chains' = Tail(chains)]_vars

\* The first ancestor chain reached 30.0, at the highest target, and was
\* passed over; the second chain's combinations were driven.
C16_Witness ==
    /\ stages = 2 /\ excel = ArtifactFixed
    /\ lookups = 2
    /\ driven # <<>>
    /\ total_combinations = Len(driven)
    /\ \A k \in DOMAIN driven : driven[k].prev[1][1] = 2

\* C17: in a multi-stage sweep, when the result lookup for an ancestor
\* chain yields no feed pressure, the chain is skipped: nothing is driven
\* or appended for it, the sweep is not aborted and the remaining chains
\* are still processed.
C17_UnresolvedChainSkipped ==
    /\ [](\A k \in DOMAIN driven :
             driven[k].cur.stage > 1 => ResolvedFeed(driven[k].prev) # None)
    /\ [][(lookups' = lookups + 1 /\ ResolvedFeed(Head(chains)) = None)
           => /\ todo' = <<>>
              /\ driven' = driven
              /\ metadata_df' = metadata_df
              /\ disk' = disk
              /\ total_combinations' = total_combinations
              /\ pc' = "sweep"
              /\ ret' = None
              /\ chains' = Tail(chains)]_vars

\* The artifact held no entry for the first ancestor chain; the second
\* chain's combinations were driven.
C17_Witness ==
    /\ stages = 2 /\ excel.readable /\ Len(excel.Metadata) = 1
    /\ lookups = 2
    /\ driven # <<>>
    /\ \A k \in DOMAIN driven : driven[k].prev[1][1] = 2

\* C18: for every export that is attempted, a ledger entry carrying the
\* export's filename and the combination's parameters is in the ledger, in
\* memory and in the file, before the export starts; the entry stays when
\* the export fails, its filename is not reused, and a lookup by those
\* parameters resolves to that filename.
C18_EntryBeforeExport ==
    \A k \in DOMAIN driven :
        driven[k].exported =>
            LET r == driven[k].row
                keys == RowKeys(metadata_df[r])
            IN  /\ r \in DOMAIN metadata_df
                /\ json_loads(metadata_df[r].current_stage_params)
                      = driven[k].cur
                /\ r \in DOMAIN disk.rows
                /\ disk.rows[r] = metadata_df[r]
                /\ \A i \in DOMAIN metadata_df :
                      i # r => metadata_df[i].filename # metadata_df[r].filename
                /\ FindFilename(metadata_df, keys[1], keys[2], keys[3],
                                keys[4], keys[5], keys[6])
                      = Some(metadata_df[r].filename)

\* C19: the ledger is append-only for the life of an export directory.
\* Whatever happens (appends, failures, restarts, the end of a process and
\* the start of the next), every entry appended before is still there,
\* unchanged and in its position; entries are only added at the end.
C19_AppendOnly ==
    [][/\ IsPrefix(disk.rows, disk'.rows)
       /\ (pc # "off" /\ pc' # "off") => IsPrefix(metadata_df, metadata_df')
       /\ (pc # "off" /\ pc' = "off") => IsPrefix(metadata_df, disk'.rows)
       /\ (pc = "off" /\ pc' = "ready") => metadata_df' = disk.rows]_vars

\* C20: durability.  Each append persists the whole ledger before it
\* returns: at whatever point the process is killed, the file holds every
\* entry whose append had completed.
C20_Durable ==
    pc \in {"ready", "sweep", "done", "raised"} =>
        /\ IsPrefix(metadata_df, disk.rows)
        /\ metadata_df # <<>> => disk.exists

\* C21: when the save of the ledger fails during an append, the append
\* still completes: the entry is kept in the in-memory ledger under the
\* filename of the counter, the counter is advanced by one, the file is
\* left as it was, no error propagates (the sweep stays in its loop), the
\* combination goes on to the export and is counted when it succeeds, and
\* the loop moves to the following combination.
C21_SaveFailureSwallowed ==
    [][(driven' # driven /\ last_save' = "failed")
         => LET d == driven'[Len(driven')]
            IN  /\ metadata_df' = Append(metadata_df,
                                         NewRow(report_counter, d.cur, d.prev))
                /\ d.row = Len(metadata_df')
                /\ metadata_df'[d.row].filename
                     = generate_report_filename(report_counter)
                /\ report_counter' = report_counter + 1
                /\ disk' = disk
                /\ d.exported
                /\ pc' = "sweep"
                /\ successful_runs'
                     = successful_runs + (IF d.ok THEN 1 ELSE 0)
                /\ todo' = Tail(todo)]_vars

\* Two combinations in a row were appended while the file could not be
\* written: the second was driven after the first save had failed, both
\* entries are in memory, both were counted, and no file exists.
C21_Witness ==
    /\ pc = "sweep" /\ last_save = "failed"
    /\ Len(driven) = 2 /\ Len(metadata_df) = 2
    /\ driven[1].row = 1 /\ driven[2].row = 2
    /\ driven[1].ok /\ driven[2].ok /\ successful_runs = 2
    /\ report_counter = 3
    /\ disk = NoFile

\* C22: generating the next filename advances no state.  Within a process,
\* a step that appends no entry leaves the counter, and with it the next
\* filename, unchanged, whatever the step drove or looked up; a step that
\* appends adds exactly one entry, named by the counter as it was before
\* the step, and advances the counter by exactly one.
C22_FilenameReadOnly ==
    [][(pc \in {"ready", "sweep"} /\ pc' # "off")
         => IF metadata_df' = metadata_df
            THEN /\ report_counter' = report_counter
                 /\ generate_report_filename(report_counter')
                      = generate_report_filename(report_counter)
            ELSE /\ Len(metadata_df') = Len(metadata_df) + 1
                 /\ SubSeq(metadata_df', 1, Len(metadata_df)) = metadata_df
                 /\ metadata_df'[Len(metadata_df')].filename
                      = generate_report_filename(report_counter)
                 /\ report_counter' = report_counter + 1]_vars

\* A sweep in which a combination that appended nothing lies between two
\* that appended: the counter stands two above its start.
C22_Witness ==
    /\ pc = "sweep" /\ Len(driven) = 3
    /\ driven[1].row # 0 /\ driven[2].row = 0 /\ driven[3].row # 0
    /\ Len(metadata_df) = driven[3].row
    /\ metadata_df[driven[1].row].filename = generate_report_filename(1)
    /\ metadata_df[driven[3].row].filename = generate_report_filename(2)
    /\ report_counter = 3

\* Helpers of the statements about direct lookups.  A lookup that has
\* returned; the keys of its criteria; whether an entry meets the criteria
\* (Meets: an ancestor's boost in the criteria must be stored and equal;
\* MeetsBoostOnBothSides: it is compared only when the entry stores one).
LookupDone == pc = "pure" /\ result # None /\ call.fn = "lookup"

CriteriaKeys(c) ==
    <<c[1], c[2], c[3], c[4], c[5],
      [i \in DOMAIN c[6] |-> SubSeq(c[6][i], 1, 4)]>>

Meets(row, c) ==
    LET keys == RowKeys(row)
        want == CriteriaKeys(c)
        stored == RowChainStored(row)
    IN  /\ \A k \in 1..5 : keys[k] = want[k]
        /\ c[6] # <<>> =>
              /\ keys[6] = want[6]
              /\ \A i \in DOMAIN c[6] :
                    (i > 1 /\ Len(c[6][i]) > 4) => stored[i] = c[6][i]

MeetsBoostOnBothSides(row, c) ==
    LET keys == RowKeys(row)
        want == CriteriaKeys(c)
        stored == RowChainStored(row)
    IN  /\ \A k \in 1..5 : keys[k] = want[k]
        /\ c[6] # <<>> =>
              /\ keys[6] = want[6]
              /\ \A i \in DOMAIN c[6] :
                    (i > 1 /\ Len(c[6][i]) > 4 /\ Len(stored[i]) > 4)
                        => stored[i] = c[6][i]

LookupHits(table, c) == {i \in DOMAIN table : Meets(table[i], c)}

LookupRow(table, c) == FindRow(table, c[1], c[2], c[3], c[4], c[5], c[6])

\* C23: when several entries of the Metadata sheet meet the criteria of a
\* lookup, the lookup resolves to the filename of the first of them in
\* ledger order, and the value it returns is the one in the row of that
\* report.
C23_FirstMatchWins ==
    LookupDone =>
        LET table == call.excel.Metadata
            c == call.criteria
            hits == LookupHits(table, c)
        IN  hits # {} =>
              LET first == CHOOSE i \in hits : \A j \in hits : i <= j
              IN  /\ FindFilename(table, c[1], c[2], c[3], c[4], c[5], c[6])
                       = Some(table[first].filename)
                  /\ call.kind \in {"full", "doubled"}
                       => result[1][2] = Some(Round1(FlowValue(first, 10)))

\* A lookup on a sheet whose two entries both meet the criteria and carry
\* different filenames; it returned the value of the first report.
C23_Witness ==
    /\ LookupDone /\ call.kind = "full"
    /\ LookupHits(call.excel.Metadata, call.criteria) = {1, 2}
    /\ call.excel.Metadata[1].filename # call.excel.Metadata[2].filename
    /\ result[1][2] = Some(Round1(FlowValue(1, 10)))

\* C24 as stated: an ancestor's boost is compared only when both the
\* criteria and the stored entry hold one; a boost on one side only is
\* ignored, so a lookup with ancestor criteria finds an entry exactly when
\* some entry agrees in pv, els, element_type and the role-appropriate
\* pressure and in every boost held on both sides.
C24_BoostOnBothSides ==
    (LookupDone /\ call.criteria[6] # <<>>) =>
        LET table == call.excel.Metadata
            c == call.criteria
        IN  (LookupRow(table, c) # 0)
                <=> (\E i \in DOMAIN table : MeetsBoostOnBothSides(table[i], c))

\* C24, amended: an ancestor's boost is compared whenever the criteria
\* hold one: the stored ancestor must then hold the same boost, and an
\* entry stored without it does not match; a boost held by the stored
\* entry only is ignored.
C24_BoostOfCriteria ==
    (LookupDone /\ call.criteria[6] # <<>>) =>
        LET table == call.excel.Metadata
            c == call.criteria
            j == LookupRow(table, c)
        IN  /\ (j # 0) <=> (LookupHits(table, c) # {})
            /\ j # 0 => j \in LookupHits(table, c)
            /\ \A i \in DOMAIN table :
                  LET stored == RowChainStored(table[i])
                  IN  (/\ RowKeys(table[i]) = CriteriaKeys(c)
                       /\ \E a \in DOMAIN c[6] :
                             a > 1 /\ Len(c[6][a]) > 4 /\ Len(stored[a]) = 4)
                        => j # i

\* The criteria hold a boost for the stage-2 ancestor, and the only entry,
\* which agrees in every other key, stores none: nothing is found.
C24_Witness ==
    /\ LookupDone /\ call.kind = "full" /\ Len(call.excel.Metadata) = 1
    /\ RowKeys(call.excel.Metadata[1]) = CriteriaKeys(call.criteria)
    /\ Len(call.criteria[6]) = 2
    /\ Len(call.criteria[6][2]) = 5
    /\ Len(RowChainStored(call.excel.Metadata[1])[2]) = 4
    /\ result[1] = <<None, None>>

\* C25: a lookup made with ancestor criteria never resolves to an entry
\* whose stored ancestor chain differs from the criteria in length or in
\* an ancestor's pv, els, element_type or role-appropriate pressure, even
\* when the entry's current-stage keys are those of the criteria; lookups
\* with the same current-stage keys and different ancestor chains resolve
\* to different entries.
C25_AncestorsDecide ==
    (LookupDone /\ call.criteria[6] # <<>>) =>
        LET table == call.excel.Metadata
            c == call.criteria
            j == LookupRow(table, c)
        IN  j # 0 =>
              /\ RowKeys(table[j]) = CriteriaKeys(c)
              /\ call.kind = "full"
                   => result[1][2] = Some(Round1(FlowValue(j, 10)))
              /\ \A c2 \in LookupCriteria :
                    (/\ c2[6] # <<>>
                     /\ \A k \in 1..5 : c2[k] = c[k]
                     /\ CriteriaKeys(c2)[6] # CriteriaKeys(c)[6])
                       => LookupRow(table, c2) # j

\* Two stage-2 entries with the same current-stage keys behind different
\* stage-1 ancestors; the lookup with the ancestor of the second entry
\* passed over the first and returned the value of the second report.
C25_Witness ==
    /\ LookupDone /\ call.kind = "full" /\ Len(call.excel.Metadata) = 2
    /\ call.criteria[1] = 2 /\ call.criteria[6] # <<>>
    /\ LET k1 == RowKeys(call.excel.Metadata[1])
           k2 == RowKeys(call.excel.Metadata[2])
       IN  /\ \A k \in 1..5 : k1[k] = k2[k] /\ k1[k] = call.criteria[k]
           /\ k1[6] # k2[6]
           /\ k2[6] = CriteriaKeys(call.criteria)[6]
    /\ result[1][2] = Some(Round1(FlowValue(2, 10)))

\* C26: the result reader never raises.  Every lookup returns a pair; with
\* no entry meeting the criteria, no row of the element_flow sheet naming
\* the report, no Feed_Press column, a file that cannot be read or a cell
\* that cannot be parsed, the pair is (None, None), the one value the
\* sweep tests for to skip the chain; otherwise a pressure is returned.
C26_ReaderNeverRaises ==
    LookupDone =>
        LET hits == LookupHits(call.excel.Metadata, call.criteria)
            failing == \/ call.kind \in {"unreadable", "norow", "nocolumn",
                                         "text"}
                       \/ hits = {}
        IN  /\ Len(result[1]) = 2
            /\ failing => result[1] = <<None, None>>
            /\ ~failing => result[1][2] # None

\* A lookup that met an entry whose report row holds text under the
\* Feed_Press columns, and one whose sheet has no Feed_Press column.
C26_Witness ==
    /\ LookupDone
    /\ call.kind \in {"text", "nocolumn"}
    /\ LookupHits(call.excel.Metadata, call.criteria) # {}
    /\ result[1] = <<None, None>>

\* C27: for a matched run the reader returns the value under the column
\* row_<n>_Feed_Press with the numerically largest n (row_10 before
\* row_9), read in the first row of the element_flow sheet that names the
\* resolved report and rounded to one decimal, together with the
\* boost_pressure stored in the matched entry (None when it stores none).
C27_LastColumnFirstRow ==
    (LookupDone /\ call.kind \in {"full", "doubled"}) =>
        LET table == call.excel.Metadata
            flow == call.excel.flow_rows
            j == LookupRow(table, call.criteria)
        IN  j # 0 =>
              LET naming == {r \in DOMAIN flow : flow[r].cell = table[j].filename}
                  r0 == CHOOSE r \in naming : \A q \in naming : r <= q
                  cur == json_loads(table[j].current_stage_params)
              IN  /\ \E n \in call.excel.flow_columns :
                        /\ \A m \in call.excel.flow_columns : m <= n
                        /\ result[1][2] = Some(Round1(flow[r0].press[n]))
                  /\ result[1][1] = IF "boost_pressure" \in DOMAIN cur
                                    THEN Some(cur.boost_pressure) ELSE None

\* A matched stage-2 run whose report is named by two rows of the sheet,
\* with columns row_9_Feed_Press and row_10_Feed_Press: the value 14.56
\* under row_10_Feed_Press of the first of the rows came back as 14.6,
\* with the boost 10.0 the entry stores.
C27_Witness ==
    /\ LookupDone /\ call.kind = "doubled"
    /\ call.criteria[1] = 2
    /\ LookupRow(call.excel.Metadata, call.criteria) = 1
    /\ call.excel.flow_columns = {9, 10}
    /\ call.excel.flow_rows[1].press[10] = 1456
    /\ call.excel.flow_rows[1].press[9] > 1456
    /\ result[1] = <<Some(1000), Some(1460)>>

\* Helpers of the statements about invocations: what makes an invocation
\* invalid, in the words of the claim.
RangeKeys == {"pv_range", "els_range", "feed_pressure_range",
              "target_pressure_range"}

MissingRequiredKey(config) ==
    \/ "common" \notin DOMAIN config
    \/ "stages" \notin DOMAIN config
    \/ \E k \in RequiredCommon : k \notin config.common
    \/ \E i \in DOMAIN config.stages :
          \/ \E k \in {"element_type", "pv_range", "els_range"} :
                k \notin DOMAIN config.stages[i]
          \/ i = 1 /\ "feed_pressure_range" \notin DOMAIN config.stages[i]
          \/ i > 1 /\ "target_pressure_range" \notin DOMAIN config.stages[i]

MalformedRange(config) ==
    /\ "stages" \in DOMAIN config
    /\ \E i \in DOMAIN config.stages :
          \E k \in RangeKeys \cap DOMAIN config.stages[i] :
             Len(config.stages[i][k]) # 2

StageOutOfRange(config, stage_to_run) ==
    /\ "stages" \in DOMAIN config
    /\ stage_to_run \notin 1..Len(config.stages)

InvalidInvocation ==
    \/ MissingRequiredKey(call.config)
    \/ MalformedRange(call.config)
    \/ StageOutOfRange(call.config, call.stage_to_run)
    \/ call.stage_to_run > 1 /\ call.prev_stage_excel = None

\* The steps the sweep of the invocation divides by.
StepsInUse ==
    {StepOf(call.config.stages[1], "feed_pressure_step")}
    \cup {StepOf(call.config.stages[k], "target_pressure_step") :
            k \in 2..call.stage_to_run}

\* C28: an invalid invocation (a configuration that lacks a required key
\* or holds a range that is no [min, max] pair, a stage number outside
\* 1..number of configured stages, a stage above 1 without the path of a
\* previous-stage artifact) raises before anything else happens: no WaveUI
\* is constructed, the application is never launched, no adapter
\* operation and no lookup is made, and the ledger is not written.
C28_InvalidInvocationFailsFirst ==
    (call # None /\ call.fn = "main" /\ InvalidInvocation) =>
        /\ pc \in {"off", "raised"}
        /\ pc = "off" => runs = 1 \/ (runs = 0 /\ ret = None)
        /\ NoObject
        /\ last_op = "none" /\ launch_fail = "none" /\ last_save = "none"
        /\ driven = <<>> /\ lookups = 0 /\ restarts = 0
        /\ ret = None
        /\ disk = NoFile

\* The invocation of stage 2 of a valid configuration without an artifact
\* path has raised.
C28_Witness ==
    /\ call # None /\ call.fn = "main"
    /\ load_json_config(call.config) /\ "export_dir" \in call.config.common
    /\ call.stage_to_run = 2 /\ call.prev_stage_excel = None
    /\ pc = "raised" /\ last_op = "none" /\ runs = 0

\* C29: a pressure step of zero or below (feed_pressure_step,
\* target_pressure_step) is rejected as a configuration error: the
\* invocation fails with an error, nothing is enumerated, and the
\* application is never launched.
C29_NonPositiveStepRejected ==
    (/\ call # None /\ call.fn = "main"
     /\ InvocationAccepted(call.config, call.stage_to_run,
                           call.prev_stage_excel)
     /\ \E st \in StepsInUse : st <= 0)
        => /\ pc \in {"off", "ready", "raised"}
           /\ last_op = "none" /\ launch_fail = "none"
           /\ total_combinations = 0 /\ todo = <<>> /\ chains = <<>>
           /\ driven = <<>>
           /\ ret = None

\* Helpers of the statement about two processes: the entries only one of
\* the two processes holds in memory.
OnlyFirstHas ==
    SeqToSet(metadata_df) \ SeqToSet(peer[1].metadata_df)
OnlyPeerHas ==
    SeqToSet(peer[1].metadata_df) \ SeqToSet(metadata_df)

\* C30: two processes appending to one export directory are unsafe.  Each
\* save rewrites the whole file from the table of the saving process, so
\* the file never holds an entry known to the first process only together
\* with an entry known to the second only: of two entries appended side
\* by side, the file loses one.  (The reachable state C30_Witness shows
\* the interleaving, with both entries under one filename.)
C30_ConcurrentAppendsLose ==
    (peer # None /\ pc \in {"ready", "sweep", "done"}) =>
        \A e \in OnlyFirstHas : \A f \in OnlyPeerHas :
            ~(e \in SeqToSet(disk.rows) /\ f \in SeqToSet(disk.rows))

\* Both processes started on the empty directory; the first appended an
\* entry and saved it, then the second appended one: the two entries carry
\* the same filename, and the file holds the entry of the second only.
C30_Witness ==
    /\ peer # None /\ pc = "sweep" /\ runs = 0
    /\ Len(metadata_df) = 1 /\ Len(peer[1].metadata_df) = 1
    /\ last_save = "ok"
    /\ metadata_df[1] # peer[1].metadata_df[1]
    /\ metadata_df[1].filename = peer[1].metadata_df[1].filename
    /\ disk.rows = peer[1].metadata_df

\* C31: at most one instance of the application is open at any time of a
\* sweep: at a restart the old instance is closed before the new one is
\* launched, and no new instance is launched while the previous one is
\* still open, also when close_application reports a failure.
C31_AtMostOneInstance == alive <= 1

\* C32: the orchestrator goes NotLaunched -> Launched -> Sweeping ->
\* Restarting -> Closed, and a combination is driven (tab select, field
\* write, report open, export) only when the most recent launch succeeded
\* and no close was issued since: never before the first launch, never
\* between the close and the relaunch of a restart, never after a failed
\* relaunch, never after the final close.
C32_DrivenOnlyWhileLaunched ==
    [][(driven' # driven /\ driven' # <<>>) =>
          /\ pc = "sweep" /\ pc' = "sweep"
          /\ usable \/ NeedRestart(restart_counter)
          /\ usable'
          /\ launch_fail' = "none"
          /\ driven'[Len(driven')].launched
          /\ last_op' \in {"select_tab", "open_detailed_report",
                          "export_to_excel"}]_vars

\* A combination was driven by the instance a restart launched.
C32_Witness ==
    /\ pc = "sweep" /\ usable /\ restarts = 1
    /\ driven # <<>> /\ driven[Len(driven)].instance = 1
    /\ driven[Len(driven)].launched

\* The boost pressure the ledger entry of the immediate ancestor records:
\* that of the first Metadata row of the artifact the ancestor matches.
AncestorBoost(prev) ==
    LET p == prev[Len(prev)]
        i == FindRow(excel.Metadata, Len(prev), p[1], p[2], p[3], p[4],
                     SubSeq(prev, 1, Len(prev) - 1))
    IN  IF i = 0 THEN None
        ELSE Get(json_loads(excel.Metadata[i].current_stage_params),
                 "boost_pressure")

\* The place of a step among the steps a combination executed (0: not
\* executed).
StepIndex(steps, name) ==
    IF \E j \in DOMAIN steps : steps[j] = name
    THEN CHOOSE j \in DOMAIN steps : steps[j] = name
    ELSE 0

\* C33: for every combination driven in a sweep of stage n > 1 the fields
\* of the ancestor stages 1..n-1 are written in stage order, then the
\* fields of stage n, all before the report is opened; stage 1 is written
\* with its feed pressure, the current stage with its boost pressure (not
\* its target pressure), an ancestor stage >= 2 with its boost pressure.
C33_AncestorsThenCurrent ==
    (driven # <<>> /\ stages > 1) =>
        LET d == driven[Len(driven)]
            w == last_drive.writes
            steps == last_drive.steps
        IN  /\ StepIndex(steps, "open_detailed_report") # 0
                 => /\ w # <<>>
                    /\ StepIndex(steps, "set_reverse_osmosis_parameters")
                          < StepIndex(steps, "open_detailed_report")
            /\ w # <<>> =>
                 /\ Len(w) = stages
                 /\ \A k \in 1..stages : w[k].stage = k
                 /\ \A k \in 1..(stages - 1) :
                       /\ w[k].pv = d.prev[k][1]
                       /\ w[k].els = d.prev[k][2]
                       /\ w[k].element_type = d.prev[k][3]
                 /\ w[stages].pv = d.cur.pv
                 /\ w[stages].els = d.cur.els
                 /\ w[stages].element_type = d.cur.element_type
                 /\ w[1].pressure = d.prev[1][4]
                 /\ \E i \in DOMAIN FeedPressureValues(stage_configs[1]) :
                       w[1].pressure = FeedPressureValues(stage_configs[1])[i]
                 /\ w[stages].pressure = d.cur.boost_pressure
                 /\ w[stages].pressure # d.cur.target_pressure
                 /\ \A k \in 2..(stages - 1) :
                       /\ Some(w[k].pressure)
                             = AncestorBoost(SubSeq(d.prev, 1, k))
                       /\ w[k].pressure # d.prev[k][4]

\* A combination of stage 3 wrote the fields of stages 1, 2 and 3 and
\* opened the report.
C33_Witness ==
    /\ stages = 3 /\ driven # <<>>
    /\ Len(last_drive.writes) = 3
    /\ StepIndex(last_drive.steps, "open_detailed_report") = 4
    /\ Len(driven[Len(driven)].prev[2]) = 5

\* C34: every ledger entry a sweep of stage n appends records stage n in
\* its current-stage parameters and an ancestor list of exactly n - 1
\* elements numbered 1..n-1 in order (empty for stage 1); the stage-1
\* ancestor carries feed_pressure, every ancestor of stage >= 2 carries
\* target_pressure, and the current-stage parameters carry feed_pressure
\* for stage 1 and both target_pressure and boost_pressure for stage > 1.
C34_EntryShape ==
    \A k \in DOMAIN driven :
        driven[k].row # 0 =>
            LET row  == metadata_df[driven[k].row]
                cur  == json_loads(row.current_stage_params)
                prev == json_loads_list(row.previous_stages_params)
            IN  /\ Get(cur, "stage") = Some(stages)
                /\ Len(prev) = stages - 1
                /\ \A i \in DOMAIN prev :
                      /\ Get(prev[i], "stage") = Some(i)
                      /\ i = 1 => /\ "feed_pressure" \in DOMAIN prev[i]
                                  /\ prev[i].feed_pressure
                                        = driven[k].prev[i][4]
                      /\ i > 1 => /\ "target_pressure" \in DOMAIN prev[i]
                                  /\ "feed_pressure" \notin DOMAIN prev[i]
                                  /\ prev[i].target_pressure
                                        = driven[k].prev[i][4]
                /\ IF stages = 1
                   THEN /\ "feed_pressure" \in DOMAIN cur
                        /\ cur.feed_pressure = driven[k].cur.feed_pressure
                   ELSE /\ "target_pressure" \in DOMAIN cur
                        /\ "boost_pressure" \in DOMAIN cur
                        /\ cur.target_pressure = driven[k].cur.target_pressure
                        /\ cur.boost_pressure = driven[k].cur.boost_pressure

\* A sweep of stage 3 appended an entry with two ancestors.
C34_Witness ==
    /\ stages = 3 /\ driven # <<>> /\ driven[Len(driven)].row # 0
    /\ Len(json_loads_list(metadata_df[driven[Len(driven)].row]
                               .previous_stages_params)) = 2
    /\ Get(json_loads(metadata_df[driven[Len(driven)].row]
                          .current_stage_params), "stage") = Some(3)

\* C35: a combination that fails at the input-tab selection, the parameter
\* setting, the report-tab selection or the report open leaves the ledger
\* and the filename counter unchanged: no entry is appended, no filename
\* is consumed, and the steps after the failed one are not executed.
C35_EarlyFailureLeavesLedger ==
    [][(driven' # driven /\ driven' # <<>>
          /\ ~driven'[Len(driven')].ok
          /\ last_drive'.steps[Len(last_drive'.steps)]
                \in {"select_tab_ro", "set_reverse_osmosis_parameters",
                     "select_tab_summary", "open_detailed_report"})
        => /\ metadata_df' = metadata_df
           /\ report_counter' = report_counter
           /\ disk' = disk
           /\ driven'[Len(driven')].row = 0
           /\ ~driven'[Len(driven')].exported
           /\ last_save' = "none"
           /\ IsPrefix(last_drive'.steps, StepOrder)
           /\ \A j \in DOMAIN last_drive'.steps :
                 last_drive'.steps[j]
                    \notin {"add_metadata_entry", "export_to_excel"}
           /\ StepIndex(last_drive'.steps, "set_reverse_osmosis_parameters")
                 = 0 => last_drive'.writes = <<>>]_vars

\* After an entry was appended, a combination failed at the report open:
\* the ledger still holds that one entry and the counter is still 2.
C35_Witness ==
    /\ pc = "sweep" /\ Len(driven) = 2
    /\ driven[1].row = 1
    /\ ~driven[2].ok /\ driven[2].row = 0
    /\ last_drive.steps = SubSeq(StepOrder, 1, 4)
    /\ Len(metadata_df) = 1 /\ report_counter = 2

\* The successful combinations instance i of the application served.
ServedBy(history, i) ==
    Cardinality({k \in DOMAIN history :
                    history[k].instance = i /\ history[k].ok})

\* C36: the restart counter always stays within 0..k for the threshold k:
\* it is incremented only by a successful combination, reset to 0 only by
\* a successful relaunch, and no instance of the application ever serves
\* more than k successful combinations.
C36_RestartCounterBounded ==
    [][/\ restart_counter' \in 0..restart_threshold
       /\ restart_counter' > restart_counter
            => /\ restart_counter' = restart_counter + 1
               /\ Len(driven') = Len(driven) + 1
               /\ driven'[Len(driven')].ok
               /\ successful_runs' = successful_runs + 1
       /\ (restart_counter' < restart_counter /\ pc' # "off")
            => /\ restarts' = restarts + 1
               /\ usable' /\ launch_fail' = "none"
               /\ restart_counter' =
                     IF driven'[Len(driven')].ok THEN 1 ELSE 0
       /\ (pc' = "sweep" /\ restarts' = restarts /\ driven' # driven)
            => restart_counter' >= restart_counter
       /\ \A i \in 0..restarts' :
             ServedBy(driven', i) <= restart_threshold]_vars

\* The first instance served the threshold's number of successful
\* combinations, and the instance a restart launched has served one.
C36_Witness ==
    /\ pc = "sweep" /\ restarts = 1 /\ restart_counter = 1
    /\ ServedBy(driven, 0) = restart_threshold
    /\ ServedBy(driven, 1) = 1

\* The ledger entries the combinations of this sweep appended.
EntriesAppended == {driven[k].row : k \in DOMAIN driven} \ {0}

\* C37: on every exit path of a sweep the returned counters satisfy
\* 0 <= successful_runs <= total_combinations, and successful_runs never
\* exceeds the number of ledger entries appended during that sweep: every
\* successful run has its own ledger entry.
C37_ReturnedCounters ==
    ret # None =>
        /\ pc = "done"
        /\ 0 <= ret[1][1]
        /\ ret[1][1] <= ret[1][2]
        /\ ret[1][1] <= Cardinality(EntriesAppended)
        /\ Cardinality(EntriesAppended) <= Len(metadata_df)
        /\ \A k \in DOMAIN driven :
              driven[k].ok =>
                 /\ driven[k].row \in DOMAIN metadata_df
                 /\ \A j \in DOMAIN driven :
                       driven[j].row = driven[k].row => j = k

\* A sweep returned after one export failed: the ledger holds one entry
\* more than the successful runs counted.
C37_Witness ==
    /\ pc = "done" /\ ret # None
    /\ ret[1][1] > 0 /\ ret[1][1] < ret[1][2]
    /\ Cardinality(EntriesAppended) = ret[1][1] + 1

\* Every pressure step the sweep divides by is positive.
PositiveSteps ==
    /\ StepOf(stage_configs[1], "feed_pressure_step") > 0
    /\ \A k \in 2..stages :
          StepOf(stage_configs[k], "target_pressure_step") > 0

\* C38: when every adapter operation and every lookup returns, a sweep
\* over a finite configuration with a positive step terminates: each
\* iteration leaves fewer ancestor chains, or the same chains and fewer
\* combinations, to the loops, and the sweep eventually reaches the
\* closed state and returns its counters, whatever the failures of
\* combinations, the skipped chains and the restarts.
C38_SweepTerminates ==
    /\ [][(pc = "sweep" /\ pc' = "sweep") =>
             \/ Len(chains') < Len(chains)
             \/ chains' = chains /\ Len(todo') < Len(todo)]_vars
    /\ (pc = "ready" /\ PositiveSteps)
          ~> (pc = "done" /\ ret # None /\ ~usable)

\* A long sweep returned its counters after a failed combination and a
\* restart.
C38_Witness ==
    /\ pc = "done" /\ ret # None /\ ~usable
    /\ restarts = 1
    /\ \E k \in DOMAIN driven : ~driven[k].ok
    /\ Len(driven) = LongPv
====
